---- MODULE Spec2Model ----
(***************************************************************************)
(* A model of the shakenfist control plane: the object state machine of    *)
(* AgentOperation, address allocation and placement in the create-instance *)
(* handlers, the per-object event log with its lock file, and the metadata *)
(* and namespace-key handlers.  Each subsystem has its own specification   *)
(* over the shared variables; the variables of the other subsystems stay   *)
(* at their initial values.                                                *)
(***************************************************************************)
EXTENDS Integers, Sequences, FiniteSets, TLC

VARIABLES
    locks,      \* distributed locks held: a set of [name, holder]
    aoRec,      \* AgentOperation: who created the stored record, or "none"
    aoState,    \* AgentOperation: stored state value ("None" before the first write)
    aoUpdated,  \* AgentOperation: timestamp stored with the state
    aoEvents,   \* AgentOperation: number of state-change events appended
    aoClock,    \* wall clock used for state timestamps
    aoPc,       \* per caller: position inside new() / the state setter
    aoLocal,    \* per caller: the call it runs, the requested target and the state it read
    aoResult,   \* per caller: outcome of its last call
    lkPath,     \* event log: inode the path <uuid>.lock names, 0 when no file
    lkNext,     \* event log: next unused inode number
    lkOwner,    \* event log: per inode, the process holding its file lock
    lkPc,       \* event log: per process, position around "with self.lock"
    lkOp,       \* event log: per process, the EventLog operation it runs
    lkFd,       \* event log: per process, the inode its open lock file is
    elChunks,   \* event log: per chunk name (YYYYMM), the chunk database
    elCwd,      \* event log: the working directory of the calling process
    elLastWrite,\* event log: the last write_event call and what it stored
    elResult,   \* event log: the last operation and what it returned
    elPruned,   \* event log: the last prune_old_events call, the rows before it and its count
    elCorrupt,  \* event log: the chunk names whose file is not a readable database
    mdStore,    \* metadata: per owner, the stored map (or None)
    mdGhost,    \* metadata: per owner, the map the finished requests give one after the other
    mdPc,       \* metadata: per request handler, its position
    mdReq,      \* metadata: per request handler, the request it serves
    mdLocal,    \* metadata: per request handler, its local copy md
    mdResult,   \* metadata: per request handler, the status of its last response
    nsRec,      \* namespaces: per namespace, the stored record
    nsGhost,    \* namespaces: per namespace, the record the finished requests give one after the other
    nsPc,       \* namespaces: per request handler, its position
    nsReq,      \* namespaces: per request handler, the request it serves
    nsLocal,    \* namespaces: per request handler, its local copy rec
    nsResult,   \* namespaces: per request handler, the status of its last response
    crApi,      \* create: which handler serves requests, app.py's or instance.py's
    netExists,  \* create: the networks Network.from_db finds
    nodeReady,  \* create: per node, whether it is in state created
    ipam,       \* create: per network, the persisted address table
    instState,  \* create: per instance, its stored state ("none" before Instance.new)
    placement,  \* create: per instance, the node recorded by place_instance
    ifaces,     \* create: the stored network interfaces
    delQ,       \* create: instances with a queued delete-due-to-error task
    instNeed,   \* create: per instance, the resources Instance.new recorded for it
    startQ,     \* create: per node, the queue of task lists enqueued on it
    received,   \* create: per node, the tasks its queue has delivered, in order
    floatQ,     \* create: interfaces with a queued FloatNetworkInterfaceTask of InterfaceFloat
    crPc,       \* create: per request handler, its position
    crReq,      \* create: per request handler, what is left of its request
    crLocal,    \* create: per request handler, the table it loaded and the address it took
    crResult,   \* create: per request handler, its response
    ipT,        \* address manager: the reservation table of one network
    ipCall,     \* address manager: the last call made on it and its outcome
    ckDisk,     \* chunk: the committed database of one chunk file
    ckPending,  \* chunk: the rows its open connection inserted and has not committed
    ckPc,       \* chunk: "never" opened, "open", "written" or "closed"
    ckClock,    \* chunk: what time.time() returns next
    ckStart,    \* chunk: the schema version the file had to begin with, 0 for no file
    ieDb,       \* instance endpoints: per instance uuid, the stored record
    ieQ,        \* instance endpoints: per node, the queue of delete tasks
    ieLast,     \* instance endpoints: the last request, the decorators it ran, its response; tick flips per request
    iePw,       \* instance endpoints: per power request handler, its position, request and outcome
    ndStore,    \* namespace delete: the namespace records, metadata, instances and networks
    ndPc,       \* namespace delete: per request handler, its position, request and response
    dsFs,       \* data store: the files and directories under the event directory
    dsCall,     \* data store: the last upgrade_data_store call and its outcome
    cvStore,    \* create validation: what the store holds (instances, artifacts, interfaces, tasks)
    cvCall      \* create validation: the last create request and its response

aoVars == <<aoRec, aoState, aoUpdated, aoEvents, aoClock, aoPc, aoLocal, aoResult>>
lkVars == <<lkPath, lkNext, lkOwner, lkPc, lkOp, lkFd>>
elVars == <<elChunks, elCwd, elLastWrite, elResult, elPruned, elCorrupt>>
mdVars == <<mdStore, mdGhost, mdPc, mdReq, mdLocal, mdResult>>
nsVars == <<nsRec, nsGhost, nsPc, nsReq, nsLocal, nsResult>>
crVars == <<crApi, netExists, nodeReady, ipam, instState, instNeed, placement, ifaces,
            delQ, startQ, received, floatQ, crPc, crReq, crLocal, crResult>>
ipVars == <<ipT, ipCall>>
ckVars == <<ckDisk, ckPending, ckPc, ckClock, ckStart>>
ieVars == <<ieDb, ieQ, ieLast, iePw>>
ndVars == <<ndStore, ndPc>>
dsVars == <<dsFs, dsCall>>
cvVars == <<cvStore, cvCall>>
vars == <<locks, aoVars, lkVars, elVars, mdVars, nsVars, crVars, ipVars, ckVars, ieVars,
         ndVars, dsVars, cvVars>>

(***************************************************************************)
(* Bounds of the model.                                                    *)
(***************************************************************************)
MaxClock == 4
MaxInodes == 3
MonthLen == 3
MaxTs == 5
MaxEvents == 4
NumAddrs == 5
MaxRedeliver == 1
MaxLabels == 7
MaxCkTs == 2
MaxTasks == 2

(***************************************************************************)
(* Distributed locks (db.get_lock): mutual exclusion by name.              *)
(***************************************************************************)
LockFree(name) == \A l \in locks : l.name # name

LockHeldBy(name, p) == [name |-> name, holder |-> p] \in locks

LockAcquired(name, p) == locks \cup {[name |-> name, holder |-> p]}

LockReleased(name, p) == locks \ {[name |-> name, holder |-> p]}

(***************************************************************************)
(* AgentOperation (src/shakenfist/agentoperation.py)                       *)
(***************************************************************************)
AOProcs == {"a1", "a2"}

STATE_CREATED == "created"
STATE_QUEUED == "queued"
STATE_EXECUTING == "executing"
STATE_COMPLETE == "complete"
STATE_ERROR == "error"
STATE_DELETED == "deleted"

AOStates == {STATE_CREATED, STATE_QUEUED, STATE_EXECUTING, STATE_COMPLETE,
             STATE_ERROR, STATE_DELETED}

ACTIVE_STATES == {STATE_CREATED, STATE_QUEUED, STATE_EXECUTING, STATE_COMPLETE}

\* A table with queued -> created added: the mutant of state_targets.
state_targets_back_edge ==
    [s \in {"None", STATE_CREATED, STATE_QUEUED, STATE_EXECUTING, STATE_DELETED} |->
        CASE s = "None" -> {STATE_CREATED, STATE_ERROR}
          [] s = STATE_CREATED -> {STATE_DELETED, STATE_ERROR, STATE_QUEUED}
          [] s = STATE_QUEUED -> {STATE_DELETED, STATE_ERROR, STATE_EXECUTING, STATE_CREATED}
          [] s = STATE_EXECUTING -> {STATE_DELETED, STATE_ERROR, STATE_COMPLETE}
          [] s = STATE_DELETED -> {}]

\* A table with created -> executing added, which skips queued: a second
\* mutant of state_targets.
state_targets_skip ==
    [s \in {"None", STATE_CREATED, STATE_QUEUED, STATE_EXECUTING, STATE_DELETED} |->
        CASE s = "None" -> {STATE_CREATED, STATE_ERROR}
          [] s = STATE_CREATED -> {STATE_DELETED, STATE_ERROR, STATE_QUEUED, STATE_EXECUTING}
          [] s = STATE_QUEUED -> {STATE_DELETED, STATE_ERROR, STATE_EXECUTING}
          [] s = STATE_EXECUTING -> {STATE_DELETED, STATE_ERROR, STATE_COMPLETE}
          [] s = STATE_DELETED -> {}]

\* The transition table.  Its keys are None, created, queued, executing and
\* deleted only; the entry of deleted is Python's None, modelled as no target.
state_targets ==
    [s \in {"None", STATE_CREATED, STATE_QUEUED, STATE_EXECUTING, STATE_DELETED} |->
        CASE s = "None" -> {STATE_CREATED, STATE_ERROR}
          [] s = STATE_CREATED -> {STATE_DELETED, STATE_ERROR, STATE_QUEUED}
          [] s = STATE_QUEUED -> {STATE_DELETED, STATE_ERROR, STATE_EXECUTING}
          [] s = STATE_EXECUTING -> {STATE_DELETED, STATE_ERROR, STATE_COMPLETE}
          [] s = STATE_DELETED -> {}]

\* The targets the setter allows from a stored state: the table's entry, and
\* none for a state the table has no entry for.
AllowedTargets(cur) ==
    IF cur \in DOMAIN state_targets THEN state_targets[cur] ELSE {}

AOInit ==
    /\ aoRec = "none"
    /\ aoState = "None"
    /\ aoUpdated = 0
    /\ aoEvents = 0
    /\ aoClock = 0
    /\ aoPc = [p \in AOProcs |-> "idle"]
    /\ aoLocal = [p \in AOProcs |-> [op |-> "none", target |-> "None", read |-> "None"]]
    /\ aoResult = [p \in AOProcs |-> "none"]

AOOnly == UNCHANGED <<locks, lkVars, elVars, mdVars, nsVars, crVars, ipVars, ckVars, ieVars, ndVars, dsVars, cvVars>>

\* AgentOperation.new, lines 45-47: from_db finds the object and returns it.
AONewExisting(p) ==
    /\ aoPc[p] = "idle"
    /\ aoRec # "none"
    /\ aoResult' = [aoResult EXCEPT ![p] = "existing"]
    /\ UNCHANGED <<aoRec, aoState, aoUpdated, aoEvents, aoClock, aoPc, aoLocal>>
    /\ AOOnly

\* AgentOperation.new, lines 45-46: from_db finds nothing, the caller goes on
\* to _db_create.
AONewLookup(p) ==
    /\ aoPc[p] = "idle"
    /\ aoRec = "none"
    /\ aoPc' = [aoPc EXCEPT ![p] = "new_create"]
    /\ aoResult' = [aoResult EXCEPT ![p] = "none"]
    /\ UNCHANGED <<aoRec, aoState, aoUpdated, aoEvents, aoClock, aoLocal>>
    /\ AOOnly

\* AgentOperation.new, lines 49-57: _db_create (an atomic create-if-absent),
\* from_db, then o.state = created enters the setter.
AONewCreate(p) ==
    /\ aoPc[p] = "new_create"
    /\ aoRec' = IF aoRec = "none" THEN p ELSE aoRec
    /\ aoPc' = [aoPc EXCEPT ![p] = "set_read"]
    /\ aoLocal' = [aoLocal EXCEPT ![p] = [op |-> "new", target |-> STATE_CREATED,
                                          read |-> "None"]]
    /\ UNCHANGED <<aoState, aoUpdated, aoEvents, aoClock, aoResult>>
    /\ AOOnly

\* A caller assigns obj.state = t on an existing operation.
AOSetBegin(p, t) ==
    /\ aoPc[p] = "idle"
    /\ aoRec # "none"
    /\ aoPc' = [aoPc EXCEPT ![p] = "set_read"]
    /\ aoLocal' = [aoLocal EXCEPT ![p] = [op |-> "set", target |-> t, read |-> "None"]]
    /\ aoResult' = [aoResult EXCEPT ![p] = "none"]
    /\ UNCHANGED <<aoRec, aoState, aoUpdated, aoEvents, aoClock>>
    /\ AOOnly

\* AgentOperation.delete: self.state = deleted.
AODelete(p) == AOSetBegin(p, STATE_DELETED)

\* The state setter reads the stored state and checks the target against the
\* transition table; an illegal target raises InvalidLifecycleState.
AOSetRead(p) ==
    /\ aoPc[p] = "set_read"
    /\ IF aoLocal[p].target \in AllowedTargets(aoState)
       THEN /\ aoPc' = [aoPc EXCEPT ![p] = "set_write"]
            /\ aoLocal' = [aoLocal EXCEPT ![p].read = aoState]
            /\ UNCHANGED aoResult
       ELSE /\ aoPc' = [aoPc EXCEPT ![p] = "idle"]
            /\ aoResult' = [aoResult EXCEPT ![p] = "InvalidLifecycleState"]
            /\ UNCHANGED aoLocal
    /\ UNCHANGED <<aoRec, aoState, aoUpdated, aoEvents, aoClock>>
    /\ AOOnly

\* A setter that writes the state and its timestamp and appends no event: the
\* mutant of AOSetWrite.
AOSetWriteNoEvent(p) ==
    /\ aoPc[p] = "set_write"
    /\ aoClock < MaxClock
    /\ aoClock' = aoClock + 1
    /\ aoState' = aoLocal[p].target
    /\ aoUpdated' = aoClock'
    /\ aoPc' = [aoPc EXCEPT ![p] = "idle"]
    /\ aoResult' = [aoResult EXCEPT ![p] = "ok"]
    /\ UNCHANGED <<aoRec, aoLocal, aoEvents>>
    /\ AOOnly

\* The state setter writes the new state with its timestamp in one write and
\* appends the state-change event.
AOSetWrite(p) ==
    /\ aoPc[p] = "set_write"
    /\ aoClock < MaxClock
    /\ aoClock' = aoClock + 1
    /\ aoState' = aoLocal[p].target
    /\ aoUpdated' = aoClock'
    /\ aoEvents' = aoEvents + 1
    /\ aoPc' = [aoPc EXCEPT ![p] = "idle"]
    /\ aoResult' = [aoResult EXCEPT ![p] = "ok"]
    /\ UNCHANGED <<aoRec, aoLocal>>
    /\ AOOnly

(***************************************************************************)
(* The event log's lock file (src/shakenfist/eventlog.py, class EventLog). *)
(* EventLog.__init__ builds an external file lock on <dbdir>/<uuid>.lock;  *)
(* "with self.lock" opens that path (creating the file when it is missing) *)
(* and takes the file lock of the inode it opened.                         *)
(***************************************************************************)
ELProcs == {"e1", "e2", "e3"}

ELOps == {"write_event", "read_events", "prune_old_events", "delete"}

Inodes == 1..MaxInodes

LKInit ==
    /\ lkPath = 0
    /\ lkNext = 1
    /\ lkOwner = [i \in Inodes |-> "none"]
    /\ lkPc = [p \in ELProcs |-> "idle"]
    /\ lkOp = [p \in ELProcs |-> "none"]
    /\ lkFd = [p \in ELProcs |-> 0]

LKOnly == UNCHANGED <<locks, aoVars, elVars, mdVars, nsVars, crVars, ipVars, ckVars, ieVars, ndVars, dsVars, cvVars>>

\* Entering "with self.lock" in one of the four operations: the lock file is
\* opened, and created first when the path names no file.
LKOpen(p, op) ==
    /\ lkPc[p] = "idle"
    /\ lkPath # 0 \/ lkNext <= MaxInodes
    /\ lkOp' = [lkOp EXCEPT ![p] = op]
    /\ lkPc' = [lkPc EXCEPT ![p] = "opened"]
    /\ IF lkPath = 0
       THEN /\ lkPath' = lkNext
            /\ lkNext' = lkNext + 1
            /\ lkFd' = [lkFd EXCEPT ![p] = lkNext]
       ELSE /\ lkFd' = [lkFd EXCEPT ![p] = lkPath]
            /\ UNCHANGED <<lkPath, lkNext>>
    /\ UNCHANGED lkOwner
    /\ LKOnly

\* The file lock on the opened inode is granted: the process is inside the
\* operation's "with self.lock" block.
LKEnter(p) ==
    /\ lkPc[p] = "opened"
    /\ lkOwner[lkFd[p]] = "none"
    /\ lkOwner' = [lkOwner EXCEPT ![lkFd[p]] = p]
    /\ lkPc' = [lkPc EXCEPT ![p] = "inside"]
    /\ UNCHANGED <<lkPath, lkNext, lkOp, lkFd>>
    /\ LKOnly

\* Leaving the "with" block releases the file lock and closes the file;
\* delete() goes on to lines 203-205.
LKExit(p) ==
    /\ lkPc[p] = "inside"
    /\ lkOwner' = [lkOwner EXCEPT ![lkFd[p]] = "none"]
    /\ lkPc' = [lkPc EXCEPT ![p] = IF lkOp[p] = "delete" THEN "unlink" ELSE "idle"]
    /\ lkFd' = [lkFd EXCEPT ![p] = 0]
    /\ UNCHANGED <<lkPath, lkNext, lkOp>>
    /\ LKOnly

\* EventLog.delete, lines 203-205: the lock file is removed when it exists.
LKUnlink(p) ==
    /\ lkPc[p] = "unlink"
    /\ lkPath' = 0
    /\ lkPc' = [lkPc EXCEPT ![p] = "idle"]
    /\ UNCHANGED <<lkNext, lkOwner, lkOp, lkFd>>
    /\ LKOnly

(***************************************************************************)
(* The event log's data (src/shakenfist/eventlog.py): one EventLog handle  *)
(* of one object, used by one caller at a time.  Timestamps are counted in *)
(* units of 0.00001 s, the increment of EventLogChunk.write_event.         *)
(***************************************************************************)
Msgs == {"m1", "m2"}

Timestamps == 0..MaxTs

\* _timestamp_to_year_month and the chunk name '%04d%02d' % (year, month):
\* the month of timestamp 0 is November 2023 and a month lasts MonthLen units.
ChunkName(ts) ==
    LET m == 10 + (ts \div MonthLen)
    IN  (2023 + (m \div 12)) * 100 + ((m % 12) + 1)

ChunkNames == {ChunkName(ts) : ts \in Timestamps}

NoChunk == [present |-> FALSE, rows |-> {}]

\* EventLogChunk._bootstrap on a path with no database: the events table is
\* created empty.
Bootstrap(chunk) == IF chunk.present THEN chunk ELSE [present |-> TRUE, rows |-> {}]

AllRows == UNION {elChunks[c].rows : c \in ChunkNames}

RowTs(rows) == {r.ts : r \in rows}

\* The insert loop with one more pass: the mutant of WriteLoop.
RECURSIVE WriteLoopFour(_, _, _, _)
WriteLoopFour(rows, ts, msg, attempts) ==
    IF attempts < 4
    THEN IF ts \in RowTs(rows)
         THEN WriteLoopFour(rows, ts + 1, msg, attempts + 1)
         ELSE [rows |-> rows \cup {[ts |-> ts, msg |-> msg]}, stored |-> ts]
    ELSE [rows |-> rows, stored |-> -1]

\* EventLogChunk.write_event, lines 333-353: the INSERT fails with
\* IntegrityError when the timestamp (the primary key) is taken; the loop
\* then adds one unit and counts an attempt.  After the loop the failure is
\* logged and the method returns.
RECURSIVE WriteLoop(_, _, _, _)
WriteLoop(rows, ts, msg, attempts) ==
    IF attempts < 3
    THEN IF ts \in RowTs(rows)
         THEN WriteLoop(rows, ts + 1, msg, attempts + 1)
         ELSE [rows |-> rows \cup {[ts |-> ts, msg |-> msg]}, stored |-> ts]
    ELSE [rows |-> rows, stored |-> -1]

ChunkWriteEventFour(rows, ts, msg) == WriteLoopFour(rows, ts, msg, 0)

ChunkWriteEvent(rows, ts, msg) == WriteLoop(rows, ts, msg, 0)

\* The rows of a set, newest first.
RECURSIVE SortedDesc(_)
SortedDesc(rows) ==
    IF rows = {} THEN <<>>
    ELSE LET top == CHOOSE r \in rows : \A q \in rows : q.ts <= r.ts
         IN  <<top>> \o SortedDesc(rows \ {top})

\* The names of a set, largest first: sorted(yearmonths, reverse=True).
RECURSIVE NamesDesc(_)
NamesDesc(names) ==
    IF names = {} THEN <<>>
    ELSE LET top == CHOOSE n \in names : \A q \in names : q <= n
         IN  <<top>> \o NamesDesc(names \ {top})

\* EventLogChunk.read_events: SELECT ... ORDER BY TIMESTAMP DESC LIMIT n.
ChunkReadEvents(rows, limit) ==
    LET all == SortedDesc(rows)
    IN  SubSeq(all, 1, IF limit < Len(all) THEN limit ELSE Len(all))

\* pathlib.Path().glob('<uuid>*'): the entries of the process's working
\* directory whose name starts with the uuid.  The object's files live in
\* self.dbdir: its chunks and, while an operation holds the lock, the lock file.
GlobCwd ==
    IF elCwd = "dbdir"
    THEN {<<"lock", 0>>} \cup {<<"chunk", c>> : c \in {n \in ChunkNames : elChunks[n].present}}
    ELSE {}

\* EventLog._get_all_chunks, lines 165-180.  The entries glob yields are Path
\* objects, which have no endswith: the first entry raises AttributeError.
\* With no entry the list of year-months stays empty.
GetAllChunks ==
    IF GlobCwd # {}
    THEN [raised |-> "AttributeError", yearmonths |-> <<>>]
    ELSE [raised |-> "none", yearmonths |-> NamesDesc({})]

\* EventLog.read_events, lines 184-194: one generator (the chunk's
\* read_events, not yet run) is appended per chunk, and the loop ends when
\* the list holds limit of them.
RECURSIVE ReadLoop(_, _, _)
ReadLoop(yearmonths, limit, events) ==
    IF yearmonths = <<>> THEN events
    ELSE LET appended == Append(events, [generator |-> Head(yearmonths),
                                         limit |-> limit - Len(events)])
         IN  IF Len(appended) >= limit THEN appended
             ELSE ReadLoop(Tail(yearmonths), limit, appended)

\* EventLogChunk(...) on a file that is not a database: the first query of
\* _bootstrap (lines 260-262) raises sqlite3.DatabaseError, which nothing
\* catches.  The chunks a loop opens before it stops are the first limit
\* ones of the list at most.
OpensCorrupt(yearmonths, limit) ==
    \E k \in 1..Len(yearmonths) : k <= limit /\ yearmonths[k] \in elCorrupt

ReadEvents(limit) ==
    LET chunks == GetAllChunks
    IN  IF chunks.raised # "none"
        THEN [outcome |-> chunks.raised, value |-> <<>>]
        ELSE IF OpensCorrupt(chunks.yearmonths, limit)
        THEN [outcome |-> "DatabaseError", value |-> <<>>]
        ELSE [outcome |-> "ok", value |-> ReadLoop(chunks.yearmonths, limit, <<>>)]

\* The WHERE clause of EventLogChunk.prune_old_events: the message is
\* compared only when one is given ("" is no message).
Matches(r, before, message) == r.ts < before /\ (message = "" \/ r.msg = message)

\* EventLogChunk.prune_old_events, lines 373-391: DELETE ... WHERE ... LIMIT n
\* without ORDER BY removes any n of the matching rows, all of them when
\* there are fewer; the method returns the number of rows removed.  The
\* result is the set of row sets the statement may remove.
ChunkPruneOldEvents(rows, before, message, limit) ==
    LET matching == {r \in rows : Matches(r, before, message)}
        n == IF limit < Cardinality(matching) THEN limit ELSE Cardinality(matching)
    IN  {gone \in SUBSET matching : Cardinality(gone) = n}

\* EventLog.prune_old_events, lines 211-220: the chunks in the order
\* _get_all_chunks yields them, each asked for limit - removed rows, until
\* removed reaches limit.  The result is the set of possible outcomes.
RECURSIVE PruneLoop(_, _, _, _, _, _)
PruneLoop(yearmonths, chunks, before, message, limit, removed) ==
    IF yearmonths = <<>> THEN {[raised |-> "none", chunks |-> chunks, removed |-> removed]}
    ELSE IF Head(yearmonths) \in elCorrupt
    THEN {[raised |-> "DatabaseError", chunks |-> chunks, removed |-> removed]}
    ELSE LET c == Head(yearmonths)
         IN  UNION {LET now == removed + Cardinality(gone)
                        left == [chunks EXCEPT ![c] = [present |-> TRUE,
                                                       rows |-> chunks[c].rows \ gone]]
                    IN  IF now >= limit
                        THEN {[raised |-> "none", chunks |-> left, removed |-> now]}
                        ELSE PruneLoop(Tail(yearmonths), left, before, message, limit, now)
                    : gone \in ChunkPruneOldEvents(chunks[c].rows, before, message,
                                                   limit - removed)}

PruneOldEvents(before, message, limit) ==
    LET found == GetAllChunks
    IN  IF found.raised # "none"
        THEN {[outcome |-> found.raised, chunks |-> elChunks, removed |-> 0]}
        ELSE {[outcome |-> IF o.raised = "none" THEN "ok" ELSE o.raised,
               chunks |-> o.chunks, removed |-> o.removed] :
                 o \in PruneLoop(found.yearmonths, elChunks, before, message, limit, 0)}

NoPrune == [before |-> -1, message |-> "", limit |-> 0, removed |-> 0, rows |-> {}]

NoWrite == [ts |-> -1, msg |-> "none", stored |-> -1, before |-> {}]

ELInit ==
    /\ elChunks = [c \in ChunkNames |-> NoChunk]
    /\ elLastWrite = NoWrite
    /\ elResult = [op |-> "none", outcome |-> "none", limit |-> 0, value |-> <<>>]
    /\ elPruned = NoPrune
    /\ elCorrupt = {}

ELOnly == UNCHANGED <<locks, aoVars, lkVars, mdVars, nsVars, crVars, ipVars, ckVars, ieVars, ndVars, dsVars, cvVars>>

\* EventLog.write_event, lines 158-163: the chunk of the timestamp's month is
\* opened (and created when missing), the event is written, the chunk closed.
\* Opening a chunk whose file is not a database raises sqlite3.DatabaseError
\* out of write_event.
ELWriteEvent(ts, msg) ==
    LET c == ChunkName(ts)
        chunk == Bootstrap(elChunks[c])
        done == ChunkWriteEvent(chunk.rows, ts, msg)
    IN  /\ Cardinality(AllRows) < MaxEvents
        /\ IF c \in elCorrupt
           THEN /\ elLastWrite' = [ts |-> ts, msg |-> msg, stored |-> -1,
                                   before |-> chunk.rows]
                /\ elResult' = [op |-> "write_event", outcome |-> "DatabaseError",
                                limit |-> 0, value |-> <<>>]
                /\ UNCHANGED elChunks
           ELSE /\ elChunks' = [elChunks EXCEPT ![c] = [present |-> TRUE, rows |-> done.rows]]
                /\ elLastWrite' = [ts |-> ts, msg |-> msg, stored |-> done.stored,
                                   before |-> chunk.rows]
                /\ elResult' = [op |-> "write_event", outcome |-> "ok", limit |-> 0,
                                value |-> <<>>]
        /\ elPruned' = NoPrune
        /\ UNCHANGED <<elCwd, elCorrupt>>
        /\ ELOnly

\* EventLog.read_events, lines 182-194.
ELReadEvents(limit) ==
    LET got == ReadEvents(limit)
    IN  /\ elResult' = [op |-> "read_events", outcome |-> got.outcome,
                        limit |-> limit, value |-> got.value]
        /\ elPruned' = NoPrune
        /\ UNCHANGED <<elChunks, elCwd, elLastWrite, elCorrupt>>
        /\ ELOnly

\* EventLog.prune_old_events, lines 207-220.
ELPruneOldEvents(before, message, limit) ==
    \E o \in PruneOldEvents(before, message, limit) :
        /\ elChunks' = o.chunks
        /\ elResult' = [op |-> "prune_old_events", outcome |-> o.outcome,
                        limit |-> limit, value |-> <<>>]
        /\ elPruned' = [before |-> before, message |-> message, limit |-> limit,
                        removed |-> o.removed, rows |-> AllRows]
        /\ UNCHANGED <<elCwd, elLastWrite, elCorrupt>>
        /\ ELOnly

\* The file of a stored chunk stops being a readable database.
ELCorrupt(c) ==
    /\ elChunks[c].present /\ c \notin elCorrupt
    /\ elCorrupt' = elCorrupt \cup {c}
    /\ UNCHANGED <<elChunks, elCwd, elLastWrite, elResult, elPruned>>
    /\ ELOnly

(***************************************************************************)
(* One chunk file and the connection EventLog.write_event opens on it:     *)
(* EventLogChunk.__init__, write_event and close.  The object is not a     *)
(* node, so the upgrade steps delete no event.                             *)
(***************************************************************************)
VERSION == 4

UpgradedTo(k) == CASE k = 2 -> "Upgraded database to version 2"
                   [] k = 3 -> "Upgraded database to version 3"
                   [] OTHER -> "Upgraded database to version 4"

Compacted == "Compacted database"

\* The clock when the chunk is first opened: later than every timestamp a
\* write_event of the model stores.
CkEpoch == MaxCkTs + 3

NoFile == [exists |-> FALSE, version |-> 0, rows |-> {}]

\* EventLogChunk._bootstrap, lines 251-327.  Without a version table the
\* tables are created at the latest version and committed.  Otherwise the
\* three steps run one after the other, each inserting its event at
\* time.time(); when the version changed it is updated and committed with
\* the events of the steps, the database is vacuumed, and the event of the
\* compaction is inserted, which no commit of _bootstrap follows.
ChunkBootstrap(disk, clock) ==
    IF ~disk.exists
    THEN [disk |-> [exists |-> TRUE, version |-> VERSION, rows |-> {}],
          pending |-> {}, clock |-> clock]
    ELSE LET s0 == [ver |-> disk.version, ins |-> {}, clock |-> clock]
             step(s, from) ==
                 IF s.ver = from
                 THEN [ver |-> from + 1,
                       ins |-> s.ins \cup {[ts |-> s.clock, msg |-> UpgradedTo(from + 1)]},
                       clock |-> s.clock + 1]
                 ELSE s
             s3 == step(step(step(s0, 1), 2), 3)
         IN  IF s3.ver # disk.version
             THEN [disk |-> [exists |-> TRUE, version |-> s3.ver,
                             rows |-> disk.rows \cup s3.ins],
                   pending |-> {[ts |-> s3.clock, msg |-> Compacted]},
                   clock |-> s3.clock + 1]
             ELSE [disk |-> disk, pending |-> {}, clock |-> clock]

CKInit ==
    /\ ckStart = 0
    /\ ckDisk = NoFile
    /\ ckPending = {}
    /\ ckPc = "never"
    /\ ckClock = CkEpoch

CKOnly == UNCHANGED <<locks, aoVars, lkVars, elVars, mdVars, nsVars, crVars, ipVars, ieVars, ndVars, dsVars, cvVars>>

\* EventLog.write_event, line 161: EventLogChunk(...) opens the chunk.
CKOpen ==
    LET b == ChunkBootstrap(ckDisk, ckClock)
    IN  /\ ckPc \in {"never", "closed"}
        /\ ckDisk' = b.disk
        /\ ckPending' = b.pending
        /\ ckClock' = b.clock
        /\ ckPc' = "open"
        /\ UNCHANGED ckStart
        /\ CKOnly

\* EventLog.write_event, line 162: elc.write_event.  The commit that follows
\* a successful INSERT commits everything the connection inserted; after
\* three collisions the method returns without a commit.
CKWriteEvent(ts, msg) ==
    LET done == ChunkWriteEvent(ckDisk.rows \cup ckPending, ts, msg)
    IN  /\ ckPc = "open"
        /\ IF done.stored # -1
           THEN /\ ckDisk' = [ckDisk EXCEPT !.rows = done.rows]
                /\ ckPending' = {}
           ELSE UNCHANGED <<ckDisk, ckPending>>
        /\ ckPc' = "written"
        /\ UNCHANGED <<ckClock, ckStart>>
        /\ CKOnly

\* EventLog.write_event, line 163: elc.close().  Closing the connection
\* discards what it has not committed.
CKClose ==
    /\ ckPc = "written"
    /\ ckPending' = {}
    /\ ckPc' = "closed"
    /\ UNCHANGED <<ckDisk, ckClock, ckStart>>
    /\ CKOnly

(***************************************************************************)
(* Metadata of namespaces, instances and networks: the set and delete      *)
(* handlers of src/shakenfist/external_api/app.py and the set handler of   *)
(* src/shakenfist/external_api/instance.py.  A falsy key or value of a     *)
(* request is "".                                                          *)
(***************************************************************************)
MDProcs == {"m1", "m2"}

MDOwners == {<<"instance", "i1">>, <<"namespace", "ns1">>}

MDKeys == {"k1", "k2"}

MDValues == {"v1", "v2"}

\* db.get_metadata gives None for an owner nothing was persisted for, and the
\* persisted dict otherwise; a key the dict lacks maps to "absent".
MdNone == [none |-> TRUE, map |-> [k \in MDKeys |-> "absent"]]

MdEmpty == [none |-> FALSE, map |-> [k \in MDKeys |-> "absent"]]

NoMdReq == [api |-> "none", op |-> "none", owner |-> <<"none", "none">>,
            key |-> "", value |-> ""]

\* A lock per key: the mutant of MDLockName.
MDLockNamePerKey(req) == <<"metadata", req.owner[1], req.owner[2], req.key>>

\* The lock add_metadata_key takes around its read-modify-write.
AddMetadataKeyLock(req) == <<"metadata", "instance", req.owner[2]>>

\* db.get_lock('metadata', meta_type, owner) of _metadata_putpost and of the
\* delete handlers.
MDLockName(req) ==
    IF req.api = "instance" THEN AddMetadataKeyLock(req)
    ELSE <<"metadata", req.owner[1], req.owner[2]>>

\* What a request makes of a map when nothing else runs.
MDApply(md, req) ==
    IF req.op = "set"
    THEN [none |-> FALSE, map |-> [md.map EXCEPT ![req.key] = req.value]]
    ELSE IF md.none \/ md.map[req.key] = "absent" THEN md
         ELSE [none |-> FALSE, map |-> [md.map EXCEPT ![req.key] = "absent"]]

\* The instance exists with the empty map Instances.post persisted for it;
\* the namespace has not been created.
MDInit ==
    /\ mdStore = [o \in MDOwners |-> IF o[1] = "instance" THEN MdEmpty ELSE MdNone]
    /\ mdGhost = [o \in MDOwners |-> IF o[1] = "instance" THEN MdEmpty ELSE MdNone]
    /\ mdPc = [p \in MDProcs |-> "idle"]
    /\ mdReq = [p \in MDProcs |-> NoMdReq]
    /\ mdLocal = [p \in MDProcs |-> MdNone]
    /\ mdResult = [p \in MDProcs |-> 0]

MDOnly == UNCHANGED <<aoVars, lkVars, elVars, nsVars, crVars, ipVars, ckVars, ieVars, ndVars, dsVars, cvVars>>

\* The checks before the lock: _metadata_putpost lines 364-369, the delete
\* handlers' "if not key", and _validate_instance_metadata.
MDRequest(p, api, op, owner, key, value) ==
    /\ mdPc[p] = "idle"
    /\ api = "instance" => (owner[1] = "instance" /\ op = "set")
    /\ op = "delete" => value = ""
    /\ IF key = "" \/ (op = "set" /\ value = "")
       THEN /\ mdResult' = [mdResult EXCEPT ![p] = 400]
            /\ UNCHANGED <<mdPc, mdReq>>
       ELSE /\ mdPc' = [mdPc EXCEPT ![p] = "acquire"]
            /\ mdReq' = [mdReq EXCEPT ![p] = [api |-> api, op |-> op, owner |-> owner,
                                              key |-> key, value |-> value]]
            /\ mdResult' = [mdResult EXCEPT ![p] = 0]
    /\ UNCHANGED <<locks, mdStore, mdGhost, mdLocal>>
    /\ MDOnly

\* with db.get_lock(...): entered once nobody holds the lock of that name.
MDAcquire(p) ==
    /\ mdPc[p] = "acquire"
    /\ LockFree(MDLockName(mdReq[p]))
    /\ locks' = LockAcquired(MDLockName(mdReq[p]), p)
    /\ mdPc' = [mdPc EXCEPT ![p] = "locked"]
    /\ UNCHANGED <<mdStore, mdGhost, mdReq, mdLocal, mdResult>>
    /\ MDOnly

\* md = db.get_metadata(...) and the change of the local copy; a delete of a
\* key the map lacks answers 404 and leaves the lock.
MDRead(p) ==
    LET req == mdReq[p]
        md == mdStore[req.owner]
    IN  /\ mdPc[p] = "locked"
        /\ IF req.op = "delete" /\ (md.none \/ md.map[req.key] = "absent")
           THEN /\ locks' = LockReleased(MDLockName(req), p)
                /\ mdPc' = [mdPc EXCEPT ![p] = "idle"]
                /\ mdReq' = [mdReq EXCEPT ![p] = NoMdReq]
                /\ mdResult' = [mdResult EXCEPT ![p] = 404]
                /\ UNCHANGED mdLocal
           ELSE /\ mdLocal' = [mdLocal EXCEPT ![p] =
                      [none |-> FALSE,
                       map |-> [md.map EXCEPT ![req.key] =
                                   IF req.op = "set" THEN req.value ELSE "absent"]]]
                /\ mdPc' = [mdPc EXCEPT ![p] = "persist"]
                /\ UNCHANGED <<locks, mdReq, mdResult>>
        /\ UNCHANGED <<mdStore, mdGhost>>
        /\ MDOnly

\* db.persist_metadata(...) and the end of the with block.
MDPersist(p) ==
    LET req == mdReq[p]
    IN  /\ mdPc[p] = "persist"
        /\ mdStore' = [mdStore EXCEPT ![req.owner] = mdLocal[p]]
        /\ mdGhost' = [mdGhost EXCEPT ![req.owner] = MDApply(mdGhost[req.owner], req)]
        /\ locks' = LockReleased(MDLockName(req), p)
        /\ mdPc' = [mdPc EXCEPT ![p] = "idle"]
        /\ mdReq' = [mdReq EXCEPT ![p] = NoMdReq]
        /\ mdLocal' = [mdLocal EXCEPT ![p] = MdNone]
        /\ mdResult' = [mdResult EXCEPT ![p] = 200]
        /\ MDOnly

(***************************************************************************)
(* Namespaces and their keys: AuthNamespaces.post, AuthNamespaceKeys.post, *)
(* AuthNamespaceKey.put and AuthNamespaceKey.delete of                     *)
(* src/shakenfist/external_api/app.py.  A missing argument is "".          *)
(***************************************************************************)
NSProcs == {"n1", "n2"}

Namespaces == {"ns1"}

KeyNames == {"ka", "kb"}

Secrets == {"s1", "s2"}

\* base64(bcrypt.hashpw(key, salt)): what is stored for a key.
Encoded(key) == IF key = "s1" THEN "hash(s1)" ELSE "hash(s2)"

\* db.get_namespace gives None for a namespace that was never persisted.
NsNone == [exists |-> FALSE, keys |-> [k \in KeyNames |-> "absent"]]

\* rec = {'name': namespace, 'keys': {}}
NsNew == [exists |-> TRUE, keys |-> [k \in KeyNames |-> "absent"]]

\* key_name in rec['keys']
HasKey(rec, key_name) == key_name \in KeyNames /\ rec.keys[key_name] # "absent"

NoNsReq == [op |-> "none", ns |-> "", key_name |-> "", key |-> ""]

\* The lock each handler takes: ('namespace', None, 'all') in
\* AuthNamespaces.post and _namespace_keys_putpost, ('namespace', None,
\* namespace) in AuthNamespaceKey.delete.
NSLockName(req) ==
    IF req.op = "delete" THEN <<"namespace", "None", req.ns>>
    ELSE <<"namespace", "None", "all">>

\* The status of the checks a handler makes before it takes its lock, 0 when
\* they pass.
NSPrecheck(req) ==
    LET rec == IF req.ns \in Namespaces THEN nsRec[req.ns] ELSE NsNone
    IN  CASE req.op = "create" -> IF req.ns = "" THEN 400 ELSE 0
          [] req.op = "delete" -> IF req.ns = "" \/ req.key_name = "" THEN 400 ELSE 0
          [] OTHER ->
               IF req.op = "put" /\ ~rec.exists THEN 404
               ELSE IF req.op = "put" /\ ~HasKey(rec, req.key_name) THEN 404
               ELSE IF req.ns = "" \/ req.key_name = "" \/ req.key = "" THEN 400
               ELSE IF req.key_name = "service_key" THEN 403
               ELSE 0

\* What a handler does with the record it read under its lock: the status
\* it answers at once, or 0 and the record it will persist.
NSModify(rec, req) ==
    CASE req.op = "create" ->
           LET base == IF rec.exists THEN rec ELSE NsNew
           IN  IF req.key_name = "" THEN [status |-> 0, rec |-> base]
               ELSE IF req.key = "" THEN [status |-> 400, rec |-> rec]
               ELSE IF req.key_name = "service_key" THEN [status |-> 403, rec |-> rec]
               ELSE [status |-> 0,
                     rec |-> [base EXCEPT !.keys[req.key_name] = Encoded(req.key)]]
      [] req.op = "delete" ->
           IF ~rec.exists THEN [status |-> 500, rec |-> rec]
           ELSE IF ~HasKey(rec, req.key_name) THEN [status |-> 404, rec |-> rec]
           ELSE [status |-> 0, rec |-> [rec EXCEPT !.keys[req.key_name] = "absent"]]
      [] OTHER ->
           IF ~rec.exists THEN [status |-> 404, rec |-> rec]
           ELSE [status |-> 0,
                 rec |-> [rec EXCEPT !.keys[req.key_name] = Encoded(req.key)]]

NSInit ==
    /\ nsRec = [n \in Namespaces |-> NsNone]
    /\ nsGhost = [n \in Namespaces |-> NsNone]
    /\ nsPc = [p \in NSProcs |-> "idle"]
    /\ nsReq = [p \in NSProcs |-> NoNsReq]
    /\ nsLocal = [p \in NSProcs |-> NsNone]
    /\ nsResult = [p \in NSProcs |-> 0]

NSOnly == UNCHANGED <<aoVars, lkVars, elVars, mdPc, mdReq, mdLocal, mdResult, crVars, ipVars, ckVars, ieVars, ndVars, dsVars, cvVars>>

\* A request arrives and its handler runs up to its lock.
NSRequest(p, op, ns, key_name, key) ==
    LET req == [op |-> op, ns |-> ns, key_name |-> key_name, key |-> key]
    IN  /\ nsPc[p] = "idle"
        /\ op = "delete" => key = ""
        /\ IF NSPrecheck(req) # 0
           THEN /\ nsResult' = [nsResult EXCEPT ![p] = NSPrecheck(req)]
                /\ UNCHANGED <<nsPc, nsReq>>
           ELSE /\ nsPc' = [nsPc EXCEPT ![p] = "acquire"]
                /\ nsReq' = [nsReq EXCEPT ![p] = req]
                /\ nsResult' = [nsResult EXCEPT ![p] = 0]
        /\ UNCHANGED <<locks, nsRec, nsGhost, nsLocal, mdStore, mdGhost>>
        /\ NSOnly

NSAcquire(p) ==
    /\ nsPc[p] = "acquire"
    /\ LockFree(NSLockName(nsReq[p]))
    /\ locks' = LockAcquired(NSLockName(nsReq[p]), p)
    /\ nsPc' = [nsPc EXCEPT ![p] = "locked"]
    /\ UNCHANGED <<nsRec, nsGhost, nsReq, nsLocal, nsResult, mdStore, mdGhost>>
    /\ NSOnly

\* rec = db.get_namespace(namespace) and the change of the local copy.
NSRead(p) ==
    LET req == nsReq[p]
        done == NSModify(nsRec[req.ns], req)
    IN  /\ nsPc[p] = "locked"
        /\ IF done.status # 0
           THEN /\ locks' = LockReleased(NSLockName(req), p)
                /\ nsPc' = [nsPc EXCEPT ![p] = "idle"]
                /\ nsReq' = [nsReq EXCEPT ![p] = NoNsReq]
                /\ nsResult' = [nsResult EXCEPT ![p] = done.status]
                /\ UNCHANGED nsLocal
           ELSE /\ nsLocal' = [nsLocal EXCEPT ![p] = done.rec]
                /\ nsPc' = [nsPc EXCEPT ![p] = "persist"]
                /\ UNCHANGED <<locks, nsReq, nsResult>>
        /\ UNCHANGED <<nsRec, nsGhost, mdStore, mdGhost>>
        /\ NSOnly

\* db.persist_namespace(namespace, rec), in AuthNamespaces.post after
\* db.persist_metadata('namespace', namespace, {}), and the end of the with
\* block.
NSPersist(p) ==
    LET req == nsReq[p]
        owner == <<"namespace", req.ns>>
    IN  /\ nsPc[p] = "persist"
        /\ nsRec' = [nsRec EXCEPT ![req.ns] = nsLocal[p]]
        /\ nsGhost' = [nsGhost EXCEPT ![req.ns] = NSModify(nsGhost[req.ns], req).rec]
        /\ IF req.op = "create"
           THEN /\ mdStore' = [mdStore EXCEPT ![owner] = MdEmpty]
                /\ mdGhost' = [mdGhost EXCEPT ![owner] = MdEmpty]
           ELSE UNCHANGED <<mdStore, mdGhost>>
        /\ locks' = LockReleased(NSLockName(req), p)
        /\ nsPc' = [nsPc EXCEPT ![p] = "idle"]
        /\ nsReq' = [nsReq EXCEPT ![p] = NoNsReq]
        /\ nsLocal' = [nsLocal EXCEPT ![p] = NsNone]
        /\ nsResult' = [nsResult EXCEPT ![p] = 200]
        /\ NSOnly

(***************************************************************************)
(* Instance creation: Instances.post of external_api/app.py and            *)
(* InstancesEndpoint.post of external_api/instance.py, with the float      *)
(* request InterfaceFloat.post of app.py.  The address manager, the        *)
(* scheduler and the delete task are not part of the source files and      *)
(* follow the specification.                                               *)
(***************************************************************************)
CRProcs == {"c1", "c2"}

FLProcs == {"f1"}

\* The instance Instance.new creates in the request of handler c.
Inst(c) == IF c = "c1" THEN "i1" ELSE "i2"

Instances == {Inst(c) : c \in CRProcs}

AllNets == {"n1", "n2", "floating"}

Nodes == {"node1", "node2"}

\* The resources of an instance: vCPUs, memory and disk footprint.
Need(cpus, memory, disk) == [cpus |-> cpus, memory |-> memory, disk |-> disk]

\* What each node advertises as free while it runs no instance.
NodeFree == [n \in Nodes |-> Need(1, 1, 1)]

\* The addresses of a network's CIDR: 0 is the network address, 1 the
\* gateway, the last one the broadcast address.
Addrs == 0..(NumAddrs - 1)

FreeLabel == [kind |-> "free", inst |-> "", order |-> -1]

InfraLabel == [kind |-> "infra", inst |-> "", order |-> -1]

\* inst.unique_label() and ni.unique_label()
InstLabel(i) == [kind |-> "instance", inst |-> i, order |-> -1]

IfaceLabel(key) == [kind |-> "interface", inst |-> key.inst, order |-> key.order]

\* A new table for a network of n addresses: the network address, the
\* gateway and the broadcast address are reserved from the start; the
\* last-allocated pointer starts at the gateway.
NewTableGatewayFree(n) ==
    [res |-> [a \in 0..(n - 1) |-> IF a \in {0, n - 1} THEN InfraLabel ELSE FreeLabel],
     last |-> 1]

NewTable(n) ==
    [res |-> [a \in 0..(n - 1) |-> IF a \in {0, 1, n - 1} THEN InfraLabel ELSE FreeLabel],
     last |-> 1]

\* IPManager.is_in_range
IsInRange(table, addr) == addr \in DOMAIN table.res

\* A scan that stops at the end of the address space instead of wrapping
\* around: the mutant of GetRandomFreeAddress.
GetRandomFreeAddressNoWrap(table, label) ==
    LET free == {a \in DOMAIN table.res : table.res[a] = FreeLabel /\ a > table.last}
    IN  IF free = {}
        THEN [raised |-> "CongestedNetwork", addr |-> -1, table |-> table]
        ELSE LET a == CHOOSE x \in free : \A y \in free : x <= y
             IN  [raised |-> "none", addr |-> a,
                  table |-> [res |-> [table.res EXCEPT ![a] = label], last |-> a]]

\* IPManager.get_random_free_address / Network.reserve_random_free_address:
\* the first free address after the last allocated one, wrapping around.
GetRandomFreeAddress(table, label) ==
    LET n == Cardinality(DOMAIN table.res)
        free == {a \in DOMAIN table.res : table.res[a] = FreeLabel}
        dist(a) == (a + n - table.last - 1) % n
    IN  IF free = {}
        THEN [raised |-> "CongestedNetwork", addr |-> -1, table |-> table]
        ELSE LET a == CHOOSE x \in free : \A y \in free : dist(x) <= dist(y)
             IN  [raised |-> "none", addr |-> a,
                  table |-> [res |-> [table.res EXCEPT ![a] = label], last |-> a]]

\* A reserve that refuses an address its own label already holds: the
\* mutant of Reserve.
ReserveOnce(table, addr, label) ==
    IF ~IsInRange(table, addr)
    THEN [ok |-> FALSE, raised |-> "AddressOutOfRangeError", table |-> table]
    ELSE IF table.res[addr] = FreeLabel
         THEN [ok |-> TRUE, raised |-> "none", table |-> [table EXCEPT !.res[addr] = label]]
    ELSE [ok |-> FALSE, raised |-> "AddressConflict", table |-> table]

\* IPManager.reserve / Network.reserve: refused for an address outside the
\* CIDR (AddressOutOfRangeError) or held by another label (AddressConflict),
\* idempotent for the same label.  The handlers test its result for truth.
Reserve(table, addr, label) ==
    IF ~IsInRange(table, addr)
    THEN [ok |-> FALSE, raised |-> "AddressOutOfRangeError", table |-> table]
    ELSE IF table.res[addr] = label THEN [ok |-> TRUE, raised |-> "none", table |-> table]
    ELSE IF table.res[addr] = FreeLabel
         THEN [ok |-> TRUE, raised |-> "none", table |-> [table EXCEPT !.res[addr] = label]]
    ELSE [ok |-> FALSE, raised |-> "AddressConflict", table |-> table]

\* IPManager.release: clears the reservation of a caller's label; a free
\* address stays free and the three permanent reservations stay.
Release(table, addr) ==
    IF IsInRange(table, addr) /\ table.res[addr] # InfraLabel
    THEN [table EXCEPT !.res[addr] = FreeLabel]
    ELSE table

\* What the instances placed on a node use of one resource.
RECURSIVE Used(_, _)
Used(insts, resource) ==
    IF insts = {} THEN 0
    ELSE LET i == CHOOSE x \in insts : TRUE
         IN  instNeed[i][resource] + Used(insts \ {i}, resource)

\* The free resources of a node at the time of a placement call.
FreeNow(n) ==
    LET here == {i \in DOMAIN placement : placement[i] = n}
    IN  Need(NodeFree[n].cpus - Used(here, "cpus"),
             NodeFree[n].memory - Used(here, "memory"),
             NodeFree[n].disk - Used(here, "disk"))

\* The hard resource constraints of the scheduler.
Fits(need, free) ==
    need.cpus <= free.cpus /\ need.memory <= free.memory /\ need.disk <= free.disk

\* A scheduler that compares the requirements with what a node advertises
\* while empty, whatever is placed on it: the mutant of PlaceInstance.
PlaceInstanceAdvertised(req) ==
    LET ready == {n \in Nodes : nodeReady[n]}
        cands == IF req.placed_on = "" THEN ready ELSE ready \cap {req.placed_on}
        fit == {n \in cands : Fits(req.need, NodeFree[n])}
    IN  IF cands = {} THEN [raised |-> "CandidateNodeNotFoundException", nodes |-> {}]
        ELSE IF fit = {} THEN [raised |-> "LowResourceException", nodes |-> {}]
        ELSE [raised |-> "none", nodes |-> fit]

\* Scheduler.place_instance: the ready candidates (the pinned node only when
\* there is one), less those failing the hard resource constraints.  The
\* ranking weights are not given, so any node left may head the list.
PlaceInstance(req) ==
    LET ready == {n \in Nodes : nodeReady[n]}
        cands == IF req.placed_on = "" THEN ready ELSE ready \cap {req.placed_on}
        fit == {n \in cands : Fits(req.need, FreeNow(n))}
    IN  IF cands = {} THEN [raised |-> "CandidateNodeNotFoundException", nodes |-> {}]
        ELSE IF fit = {} THEN [raised |-> "LowResourceException", nodes |-> {}]
        ELSE [raised |-> "none", nodes |-> fit]

\* db.get_lock('ipmanager', None, network_uuid)
IPLockName(net) == <<"ipmanager", "None", net>>

\* A network description of a request: how is "random" when it names no
\* address, "none" when the address is noneish, "explicit" when it names one.
NetDesc(net, how, address, float) ==
    [net |-> net, how |-> how, address |-> address, float |-> float]

\* The requests of the model: network descriptions, resources and placed_on.
CreateRequests ==
    {[nets |-> nets, need |-> Need(1, 1, 1), placed_on |-> ""] :
        nets \in {<<NetDesc("n1", "random", -1, FALSE)>>,
                  <<NetDesc("n1", "random", -1, TRUE)>>,
                  <<NetDesc("n1", "random", -1, TRUE), NetDesc("n2", "random", -1, TRUE)>>,
                  <<NetDesc("n1", "random", -1, FALSE), NetDesc("n1", "random", -1, FALSE)>>,
                  <<NetDesc("n2", "random", -1, FALSE), NetDesc("n1", "random", -1, FALSE)>>,
                  <<NetDesc("n2", "random", -1, FALSE), NetDesc("nx", "random", -1, FALSE)>>,
                  <<NetDesc("n2", "random", -1, FALSE), NetDesc("n1", "explicit", 2, FALSE)>>}}
    \cup {[nets |-> <<NetDesc("n1", "random", -1, FALSE)>>, need |-> Need(2, 2, 1),
           placed_on |-> ""],
          [nets |-> <<NetDesc("n1", "none", -1, FALSE)>>, need |-> Need(1, 1, 1),
           placed_on |-> "node1"],
          [nets |-> <<NetDesc("n1", "none", -1, FALSE)>>, need |-> Need(1, 1, 1),
           placed_on |-> "node3"],
          [nets |-> <<NetDesc("n1", "explicit", NumAddrs, FALSE)>>, need |-> Need(1, 1, 1),
           placed_on |-> ""]}

NoCrReq == [nets |-> <<>>, need |-> Need(0, 0, 0), placed_on |-> "", order |-> 0,
            float_tasks |-> <<>>, target |-> [inst |-> "", order |-> -1]]

NoCrLocal == [addr |-> -1, table |-> NewTable(NumAddrs)]

\* disk_spec of the requests: a disk with an image url as its base, a disk
\* without a base and a disk whose base is a blob url.
DiskSpec == <<[base |-> "img", blob_uuid |-> ""], [base |-> "", blob_uuid |-> ""],
              [base |-> "sf://blob/b1", blob_uuid |-> ""]>>

\* instance.py: the blob of a base that starts with BLOB_URL, and the url
\* '%s%s' % (BLOB_URL, blob_uuid) of a blob.
BlobOf(base) == IF base = "sf://blob/b1" THEN "b1" ELSE ""

BlobUrl(blob_uuid) == IF blob_uuid = "b1" THEN "sf://blob/b1" ELSE ""

\* The disks as the sanity loop of the handler leaves them: instance.py
\* records the blob of a blob url, app.py keeps the base only.
TransformedDisk(api, d) ==
    IF api = "instance" THEN [d EXCEPT !.blob_uuid = BlobOf(d.base)] ELSE d

\* Whether the handler queues a FetchImageTask for a disk, and what it fetches.
Fetches(api, d) ==
    IF api = "instance" THEN d.blob_uuid # "" \/ d.base # "" ELSE d.base # ""

FetchUrl(api, d) ==
    IF api = "instance" /\ d.blob_uuid # "" THEN BlobUrl(d.blob_uuid) ELSE d.base

Task(task, i, arg, order) == [task |-> task, inst |-> i, arg |-> arg, order |-> order]

\* A task list with the start task ahead of the fetch tasks: the mutant of
\* StartTasks.
StartTasksStartFirst(api, i, float_tasks) ==
    LET disks == [k \in 1..Len(DiskSpec) |-> TransformedDisk(api, DiskSpec[k])]
        fetched == SelectSeq(disks, LAMBDA d : Fetches(api, d))
    IN  <<Task("PreflightInstanceTask", i, "", -1)>>
        \o <<Task("StartInstanceTask", i, "", -1)>>
        \o [k \in 1..Len(fetched) |-> Task("FetchImageTask", i, FetchUrl(api, fetched[k]), -1)]
        \o [k \in 1..Len(float_tasks) |->
               Task("FloatNetworkInterfaceTask", i, "", float_tasks[k].order)]

\* The task list of a successful request.
StartTasks(api, i, float_tasks) ==
    LET disks == [k \in 1..Len(DiskSpec) |-> TransformedDisk(api, DiskSpec[k])]
        fetched == SelectSeq(disks, LAMBDA d : Fetches(api, d))
    IN  <<Task("PreflightInstanceTask", i, "", -1)>>
        \o [k \in 1..Len(fetched) |-> Task("FetchImageTask", i, FetchUrl(api, fetched[k]), -1)]
        \o <<Task("StartInstanceTask", i, "", -1)>>
        \o [k \in 1..Len(float_tasks) |->
               Task("FloatNetworkInterfaceTask", i, "", float_tasks[k].order)]

\* The task lists on the queues that belong to an instance.
QueuedFor(i) ==
    {<<n, k>> \in Nodes \X (1..2 * Cardinality(Instances)) :
        k <= Len(startQ[n]) /\ startQ[n][k].inst = i}

\* The addresses reserved for an instance or for one of its interfaces.
ReservedFor(i) == {<<n, a>> \in AllNets \X Addrs : ipam[n].res[a].inst = i}

CRInit ==
    /\ ipam = [n \in AllNets |-> NewTable(NumAddrs)]
    /\ instState = [i \in Instances |-> "none"]
    /\ instNeed = [i \in Instances |-> Need(0, 0, 0)]
    /\ placement = [i \in Instances |-> ""]
    /\ ifaces = {}
    /\ delQ = {}
    /\ startQ = [n \in Nodes |-> <<>>]
    /\ received = [n \in Nodes |-> <<>>]
    /\ floatQ = {}
    /\ crPc = [p \in CRProcs \cup FLProcs |-> "idle"]
    /\ crReq = [p \in CRProcs \cup FLProcs |-> NoCrReq]
    /\ crLocal = [p \in CRProcs \cup FLProcs |-> NoCrLocal]
    /\ crResult = [p \in CRProcs \cup FLProcs |-> [code |-> 0, why |-> "", order |-> 0]]

CROnly ==
    UNCHANGED <<aoVars, lkVars, elVars, nsVars, mdVars, crApi, netExists, nodeReady, ipVars, ckVars, ieVars, ndVars, dsVars, cvVars>>

\* The handler answers: its response is recorded and its request is over.
Finish(p, code, why) ==
    /\ crPc' = [crPc EXCEPT ![p] = IF p \in CRProcs THEN "done" ELSE "idle"]
    /\ crResult' = [crResult EXCEPT ![p] = [code |-> code, why |-> why,
                                            order |-> crReq[p].order]]
    /\ crReq' = [crReq EXCEPT ![p] = NoCrReq]
    /\ crLocal' = [crLocal EXCEPT ![p] = NoCrLocal]

\* The loop moves on to the next network description.
NextNet(c, float_tasks) ==
    /\ crPc' = [crPc EXCEPT ![c] = "net"]
    /\ crReq' = [crReq EXCEPT ![c].nets = Tail(@), ![c].order = @ + 1,
                              ![c].float_tasks = float_tasks]
    /\ crLocal' = [crLocal EXCEPT ![c] = NoCrLocal]

\* NetworkInterface.new with the address taken, then the float of the
\* interface when the description asks for one, else the next description.
AfterAddress(c, addr) ==
    LET nd == Head(crReq[c].nets)
        key == [inst |-> Inst(c), order |-> crReq[c].order]
    IN  /\ ifaces' = ifaces \cup {[inst |-> key.inst, order |-> key.order, net |-> nd.net,
                                   addr |-> addr, floating |-> -1]}
        /\ IF nd.float
           THEN /\ crPc' = [crPc EXCEPT ![c] = "float"]
                /\ crReq' = [crReq EXCEPT ![c].target = key]
                /\ crLocal' = [crLocal EXCEPT ![c] = NoCrLocal]
           ELSE NextNet(c, crReq[c].float_tasks)

\* A handler that leaves the pinned node to the scheduler: the mutant of
\* CRBegin.
CRBeginNoNodeCheck(c, req) ==
    /\ crPc[c] = "idle"
    /\ IF \E k \in 1..Len(req.nets) :
              /\ req.nets[k].how = "explicit"
              /\ req.nets[k].net \in DOMAIN ipam
              /\ ~IsInRange(ipam[req.nets[k].net], req.nets[k].address)
       THEN /\ Finish(c, 400, "range")
            /\ UNCHANGED <<instState, instNeed>>
       ELSE /\ instState' = [instState EXCEPT ![Inst(c)] = "initial"]
            /\ instNeed' = [instNeed EXCEPT ![Inst(c)] = req.need]
            /\ crPc' = [crPc EXCEPT ![c] = "net"]
            /\ crReq' = [crReq EXCEPT ![c] = [nets |-> req.nets, need |-> req.need,
                              placed_on |-> req.placed_on, order |-> 0,
                              float_tasks |-> <<>>, target |-> NoCrReq.target]]
            /\ UNCHANGED <<crLocal, crResult>>
    /\ UNCHANGED <<locks, ipam, placement, ifaces, delQ, startQ, received, floatQ>>
    /\ CROnly

\* The checks of the handler up to Instance.new: a pinned node must exist
\* and be in state created, and an address a network description names
\* must be in the range of its network.
CRBegin(c, req) ==
    /\ crPc[c] = "idle"
    /\ IF req.placed_on # "" /\ ~(req.placed_on \in Nodes /\ nodeReady[req.placed_on])
       THEN /\ Finish(c, 404, "node")
            /\ UNCHANGED <<instState, instNeed>>
       ELSE IF \E k \in 1..Len(req.nets) :
                  /\ req.nets[k].how = "explicit"
                  /\ req.nets[k].net \in DOMAIN ipam
                  /\ ~IsInRange(ipam[req.nets[k].net], req.nets[k].address)
       THEN /\ Finish(c, 400, "range")
            /\ UNCHANGED <<instState, instNeed>>
       ELSE /\ instState' = [instState EXCEPT ![Inst(c)] = "initial"]
            /\ instNeed' = [instNeed EXCEPT ![Inst(c)] = req.need]
            /\ crPc' = [crPc EXCEPT ![c] = "net"]
            /\ crReq' = [crReq EXCEPT ![c] = [nets |-> req.nets, need |-> req.need,
                              placed_on |-> req.placed_on, order |-> 0,
                              float_tasks |-> <<>>, target |-> NoCrReq.target]]
            /\ UNCHANGED <<crLocal, crResult>>
    /\ UNCHANGED <<locks, ipam, placement, ifaces, delQ, startQ, received, floatQ>>
    /\ CROnly

\* Network.from_db finds no network: the instance is sent to deletion and
\* the request answered 404.
CRNetMissing(c) ==
    /\ crPc[c] = "net" /\ crReq[c].nets # <<>>
    /\ Head(crReq[c].nets).net \notin netExists
    /\ delQ' = delQ \cup {Inst(c)}
    /\ Finish(c, 404, "network missing")
    /\ UNCHANGED <<locks, ipam, instState, instNeed, placement, ifaces, startQ, received, floatQ>>
    /\ CROnly

\* An interface without an address (address=none).
CRNoAddress(c) ==
    /\ crPc[c] = "net" /\ crReq[c].nets # <<>>
    /\ Head(crReq[c].nets).net \in netExists
    /\ Head(crReq[c].nets).how = "none"
    /\ AfterAddress(c, -1)
    /\ UNCHANGED <<locks, ipam, instState, instNeed, placement, delQ, startQ, received, floatQ, crResult>>
    /\ CROnly

\* Entering the lock without waiting for it: the mutant of CRLock.
CRLockNoWait(c) ==
    /\ crApi = "app"
    /\ crPc[c] = "net" /\ crReq[c].nets # <<>>
    /\ Head(crReq[c].nets).net \in netExists
    /\ Head(crReq[c].nets).how # "none"
    /\ locks' = LockAcquired(IPLockName(Head(crReq[c].nets).net), c)
    /\ crPc' = [crPc EXCEPT ![c] = "locked"]
    /\ UNCHANGED <<ipam, instState, instNeed, placement, ifaces, delQ, startQ, received, floatQ, crReq,
                   crLocal, crResult>>
    /\ CROnly

\* app.py: with db.get_lock('ipmanager', None, netdesc['network_uuid']).
CRLock(c) ==
    /\ crApi = "app"
    /\ crPc[c] = "net" /\ crReq[c].nets # <<>>
    /\ Head(crReq[c].nets).net \in netExists
    /\ Head(crReq[c].nets).how # "none"
    /\ LockFree(IPLockName(Head(crReq[c].nets).net))
    /\ locks' = LockAcquired(IPLockName(Head(crReq[c].nets).net), c)
    /\ crPc' = [crPc EXCEPT ![c] = "locked"]
    /\ UNCHANGED <<ipam, instState, instNeed, placement, ifaces, delQ, startQ, received, floatQ, crReq,
                   crLocal, crResult>>
    /\ CROnly

\* app.py: ipm = IPManager.from_db(...) and the reservation in the loaded
\* table.  A refused reserve sends the instance to deletion and answers
\* 409; CongestedNetwork is caught nowhere in the handler and leaves it as
\* a 500.  Both leave the with block, which releases the lock.
CRLoadReserve(c) ==
    LET nd == Head(crReq[c].nets)
        random == GetRandomFreeAddress(ipam[nd.net], InstLabel(Inst(c)))
        given == Reserve(ipam[nd.net], nd.address, InstLabel(Inst(c)))
    IN  /\ crPc[c] = "locked"
        /\ IF nd.how = "random" /\ random.raised # "none"
           THEN /\ locks' = LockReleased(IPLockName(nd.net), c)
                /\ Finish(c, 500, random.raised)
                /\ UNCHANGED delQ
           ELSE IF nd.how = "explicit" /\ ~given.ok
           THEN /\ locks' = LockReleased(IPLockName(nd.net), c)
                /\ delQ' = delQ \cup {Inst(c)}
                /\ Finish(c, 409, "reserve refused")
           ELSE /\ crLocal' = [crLocal EXCEPT ![c] =
                      IF nd.how = "random"
                      THEN [addr |-> random.addr, table |-> random.table]
                      ELSE [addr |-> nd.address, table |-> given.table]]
                /\ crPc' = [crPc EXCEPT ![c] = "persist"]
                /\ UNCHANGED <<locks, delQ, crReq, crResult>>
        /\ UNCHANGED <<ipam, instState, instNeed, placement, ifaces, startQ, received, floatQ>>
        /\ CROnly

\* A handler that persists the table and goes on inside the with block:
\* the mutant of CRPersist.
CRPersistKeepLock(c) ==
    LET nd == Head(crReq[c].nets)
    IN  /\ crPc[c] = "persist"
        /\ ipam' = [ipam EXCEPT ![nd.net] = crLocal[c].table]
        /\ AfterAddress(c, crLocal[c].addr)
        /\ UNCHANGED <<locks, instState, instNeed, placement, delQ, startQ, received,
                       floatQ, crResult>>
        /\ CROnly

\* app.py: ipm.persist(), the end of the with block, NetworkInterface.new.
CRPersist(c) ==
    LET nd == Head(crReq[c].nets)
    IN  /\ crPc[c] = "persist"
        /\ ipam' = [ipam EXCEPT ![nd.net] = crLocal[c].table]
        /\ locks' = LockReleased(IPLockName(nd.net), c)
        /\ AfterAddress(c, crLocal[c].addr)
        /\ UNCHANGED <<instState, instNeed, placement, delQ, startQ, received, floatQ, crResult>>
        /\ CROnly

\* The result of n.reserve ignored: the mutant of CRReserve.
CRReserveUnchecked(c) ==
    LET nd == Head(crReq[c].nets)
        random == GetRandomFreeAddress(ipam[nd.net], InstLabel(Inst(c)))
        given == Reserve(ipam[nd.net], nd.address, InstLabel(Inst(c)))
    IN  /\ crApi = "instance"
        /\ crPc[c] = "net" /\ crReq[c].nets # <<>>
        /\ nd.net \in netExists
        /\ nd.how # "none"
        /\ LockFree(IPLockName(nd.net))
        /\ IF nd.how = "random" /\ random.raised # "none"
           THEN /\ delQ' = delQ \cup {Inst(c)}
                /\ Finish(c, 507, random.raised)
                /\ UNCHANGED <<ipam, ifaces>>
           ELSE /\ ipam' = [ipam EXCEPT ![nd.net] =
                               IF nd.how = "random" THEN random.table ELSE given.table]
                /\ AfterAddress(c, IF nd.how = "random" THEN random.addr ELSE nd.address)
                /\ UNCHANGED <<delQ, crResult>>
        /\ UNCHANGED <<locks, instState, instNeed, placement, startQ, received, floatQ>>
        /\ CROnly

\* instance.py: n.reserve_random_free_address / n.reserve, which do their
\* read-modify-write under the network's lock; CongestedNetwork is caught
\* and, like a refused reserve, sends the instance to deletion.
CRReserve(c) ==
    LET nd == Head(crReq[c].nets)
        random == GetRandomFreeAddress(ipam[nd.net], InstLabel(Inst(c)))
        given == Reserve(ipam[nd.net], nd.address, InstLabel(Inst(c)))
    IN  /\ crApi = "instance"
        /\ crPc[c] = "net" /\ crReq[c].nets # <<>>
        /\ nd.net \in netExists
        /\ nd.how # "none"
        /\ LockFree(IPLockName(nd.net))
        /\ IF nd.how = "random" /\ random.raised # "none"
           THEN /\ delQ' = delQ \cup {Inst(c)}
                /\ Finish(c, 507, random.raised)
                /\ UNCHANGED <<ipam, ifaces>>
           ELSE IF nd.how = "explicit" /\ ~given.ok
           THEN /\ delQ' = delQ \cup {Inst(c)}
                /\ Finish(c, 409, "reserve refused")
                /\ UNCHANGED <<ipam, ifaces>>
           ELSE /\ ipam' = [ipam EXCEPT ![nd.net] =
                               IF nd.how = "random" THEN random.table ELSE given.table]
                /\ AfterAddress(c, IF nd.how = "random" THEN random.addr ELSE nd.address)
                /\ UNCHANGED <<delQ, crResult>>
        /\ UNCHANGED <<locks, instState, instNeed, placement, startQ, received, floatQ>>
        /\ CROnly

\* InterfaceFloat.post: a float request for an interface of an instance
\* whose creation was answered.
FLRequest(p, key) ==
    /\ crApi = "app"
    /\ p \in FLProcs /\ crPc[p] = "idle"
    /\ \E n \in ifaces : n.inst = key.inst /\ n.order = key.order
    /\ \E c \in CRProcs : Inst(c) = key.inst /\ crPc[c] = "done" /\ crResult[c].code = 200
    /\ crPc' = [crPc EXCEPT ![p] = "float"]
    /\ crReq' = [crReq EXCEPT ![p].target = key]
    /\ crResult' = [crResult EXCEPT ![p] = [code |-> 0, why |-> "", order |-> 0]]
    /\ UNCHANGED <<locks, ipam, instState, instNeed, placement, ifaces, delQ, startQ, received, floatQ, crLocal>>
    /\ CROnly

\* _assign_floating_ip without a floating network: 404, and in a create
\* request the instance is sent to deletion.
FLNoNetwork(p) ==
    /\ crPc[p] = "float"
    /\ "floating" \notin netExists
    /\ delQ' = IF p \in CRProcs THEN delQ \cup {Inst(p)} ELSE delQ
    /\ Finish(p, 404, "floating")
    /\ UNCHANGED <<locks, ipam, instState, instNeed, placement, ifaces, startQ, received, floatQ>>
    /\ CROnly

\* _assign_floating_ip: with db.get_lock('ipmanager', None, 'floating').
FLLock(p) ==
    /\ crApi = "app"
    /\ crPc[p] = "float"
    /\ "floating" \in netExists
    /\ LockFree(IPLockName("floating"))
    /\ locks' = LockAcquired(IPLockName("floating"), p)
    /\ crPc' = [crPc EXCEPT ![p] = "float_locked"]
    /\ UNCHANGED <<ipam, instState, instNeed, placement, ifaces, delQ, startQ, received, floatQ, crReq,
                   crLocal, crResult>>
    /\ CROnly

\* _assign_floating_ip: IPManager.from_db('floating') and
\* get_random_free_address(ni.unique_label()); CongestedNetwork leaves the
\* handler as a 500.
FLLoadReserve(p) ==
    LET random == GetRandomFreeAddress(ipam["floating"], IfaceLabel(crReq[p].target))
    IN  /\ crPc[p] = "float_locked"
        /\ IF random.raised # "none"
           THEN /\ locks' = LockReleased(IPLockName("floating"), p)
                /\ Finish(p, 500, random.raised)
           ELSE /\ crLocal' = [crLocal EXCEPT ![p] =
                                  [addr |-> random.addr, table |-> random.table]]
                /\ crPc' = [crPc EXCEPT ![p] = "float_persist"]
                /\ UNCHANGED <<locks, crReq, crResult>>
        /\ UNCHANGED <<ipam, instState, instNeed, placement, ifaces, delQ, startQ, received, floatQ>>
        /\ CROnly

\* The interfaces with the floating address of one of them set.
Floated(key, addr) ==
    {IF n.inst = key.inst /\ n.order = key.order THEN [n EXCEPT !.floating = addr] ELSE n :
        n \in ifaces}

\* _assign_floating_ip: ipm.persist(), the end of the with block and
\* ni.floating = addr; then the float task of the caller.
FLPersist(p) ==
    /\ crPc[p] = "float_persist"
    /\ ipam' = [ipam EXCEPT !["floating"] = crLocal[p].table]
    /\ locks' = LockReleased(IPLockName("floating"), p)
    /\ ifaces' = Floated(crReq[p].target, crLocal[p].addr)
    /\ IF p \in CRProcs
       THEN /\ NextNet(p, Append(crReq[p].float_tasks, crReq[p].target))
            /\ UNCHANGED <<floatQ, crResult>>
       ELSE /\ floatQ' = floatQ \cup {crReq[p].target}
            /\ Finish(p, 200, "ok")
    /\ UNCHANGED <<instState, instNeed, placement, delQ, startQ, received>>
    /\ CROnly

\* instance.py: api_util.assign_floating_ip, which reserves under the
\* floating network's lock; an error or CongestedNetwork sends the instance
\* to deletion.
CRFloatInstance(c) ==
    LET random == GetRandomFreeAddress(ipam["floating"], IfaceLabel(crReq[c].target))
    IN  /\ crApi = "instance"
        /\ crPc[c] = "float"
        /\ "floating" \in netExists
        /\ LockFree(IPLockName("floating"))
        /\ IF random.raised # "none"
           THEN /\ delQ' = delQ \cup {Inst(c)}
                /\ Finish(c, 507, random.raised)
                /\ UNCHANGED <<ipam, ifaces>>
           ELSE /\ ipam' = [ipam EXCEPT !["floating"] = random.table]
                /\ ifaces' = Floated(crReq[c].target, random.addr)
                /\ NextNet(c, Append(crReq[c].float_tasks, crReq[c].target))
                /\ UNCHANGED <<delQ, crResult>>
        /\ UNCHANGED <<locks, instState, instNeed, placement, startQ, received, floatQ>>
        /\ CROnly

\* A scheduling failure answered without sending the instance to deletion:
\* the mutant of CRSchedule.
CRScheduleNoCleanup(c) ==
    LET placed == PlaceInstance(crReq[c])
    IN  /\ crPc[c] = "net" /\ crReq[c].nets = <<>>
        /\ IF placed.raised # "none"
           THEN /\ Finish(c, IF placed.raised = "LowResourceException" THEN 507 ELSE 404,
                          placed.raised)
                /\ UNCHANGED <<placement, startQ, delQ>>
           ELSE /\ \E node \in placed.nodes :
                     /\ placement' = [placement EXCEPT ![Inst(c)] = node]
                     /\ startQ' = [startQ EXCEPT ![node] = Append(@,
                            [inst |-> Inst(c), tries |-> 0,
                             tasks |-> StartTasks(crApi, Inst(c), crReq[c].float_tasks)])]
                /\ Finish(c, 200, "ok")
                /\ UNCHANGED delQ
        /\ UNCHANGED <<locks, ipam, instState, instNeed, ifaces, received, floatQ>>
        /\ CROnly

\* After the last network description: SCHEDULER.place_instance; on
\* LowResourceException or CandidateNodeNotFoundException the instance is
\* sent to deletion and the request answered 507 or 404; else
\* inst.place_instance(placement) and the task list on the node's queue.
CRSchedule(c) ==
    LET placed == PlaceInstance(crReq[c])
    IN  /\ crPc[c] = "net" /\ crReq[c].nets = <<>>
        /\ IF placed.raised # "none"
           THEN /\ delQ' = delQ \cup {Inst(c)}
                /\ Finish(c, IF placed.raised = "LowResourceException" THEN 507 ELSE 404,
                          placed.raised)
                /\ UNCHANGED <<placement, startQ>>
           ELSE /\ \E node \in placed.nodes :
                     /\ placement' = [placement EXCEPT ![Inst(c)] = node]
                     /\ startQ' = [startQ EXCEPT ![node] = Append(@,
                            [inst |-> Inst(c), tries |-> 0,
                             tasks |-> StartTasks(crApi, Inst(c), crReq[c].float_tasks)])]
                /\ Finish(c, 200, "ok")
                /\ UNCHANGED delQ
        /\ UNCHANGED <<locks, ipam, instState, instNeed, ifaces, received, floatQ>>
        /\ CROnly

\* The delete task enqueue_delete_due_error queued: the addresses of the
\* instance and of its interfaces are released under the locks of their
\* networks, the interfaces deleted and the instance left in state error.
DeleteWorker(i) ==
    /\ i \in delQ
    /\ \A n \in AllNets : (\E a \in Addrs : ipam[n].res[a].inst = i) => LockFree(IPLockName(n))
    /\ ipam' = [n \in AllNets |->
                  [ipam[n] EXCEPT !.res = [a \in Addrs |->
                      IF ipam[n].res[a].inst = i THEN FreeLabel ELSE ipam[n].res[a]]]]
    /\ ifaces' = {n \in ifaces : n.inst # i}
    /\ instState' = [instState EXCEPT ![i] = "error"]
    /\ delQ' = delQ \ {i}
    /\ UNCHANGED <<locks, instNeed, placement, startQ, received, floatQ, crPc, crReq,
                   crLocal, crResult>>
    /\ CROnly

\* The queue of a node delivers the task list at its head, in the order the
\* list was enqueued in.  Delivery is at least once: the list is taken off
\* the queue, or stays on it to be delivered again.
NodeReceive(n, again) ==
    /\ startQ[n] # <<>>
    /\ again => Head(startQ[n]).tries < MaxRedeliver
    /\ received' = [received EXCEPT ![n] = @ \o Head(startQ[n]).tasks]
    /\ startQ' = [startQ EXCEPT ![n] =
                     IF again THEN <<[Head(@) EXCEPT !.tries = @ + 1]>> \o Tail(@)
                     ELSE Tail(@)]
    /\ UNCHANGED <<locks, ipam, instState, instNeed, placement, ifaces, delQ, floatQ,
                   crPc, crReq, crLocal, crResult>>
    /\ CROnly

(***************************************************************************)
(* The address manager of one network (spec 4.2), called directly.         *)
(***************************************************************************)
\* Networks.post refuses a netblock of fewer than 8 addresses.
MinNetSize == 8

\* The labels of the callers, in a fixed order.
LabelNames == [k \in 1..MaxLabels |->
                 CASE k = 1 -> "l1" [] k = 2 -> "l2" [] k = 3 -> "l3" [] k = 4 -> "l4"
                   [] k = 5 -> "l5" [] k = 6 -> "l6" [] k = 7 -> "l7" [] OTHER -> "l8"]

\* The labels holding an address of a table.
Holders(table) == {table.res[a] : a \in DOMAIN table.res} \ {FreeLabel, InfraLabel}

\* The first label that holds no address of a table: the next caller of the
\* /29 scenario.
FreshLabels(table) ==
    LET unused == {k \in 1..MaxLabels : InstLabel(LabelNames[k]) \notin Holders(table)}
    IN  {InstLabel(LabelNames[k]) : k \in {x \in unused : \A y \in unused : x <= y}}

\* The labels of the callers when any sequence of calls is made.
TwoLabels == {InstLabel(LabelNames[1]), InstLabel(LabelNames[2])}

NoCall == [op |-> "none", addr |-> -1, label |-> FreeLabel, held |-> FreeLabel,
           raised |-> "none"]

\* The label that holds an address before a call.
HeldAt(table, addr) == IF IsInRange(table, addr) THEN table.res[addr] ELSE FreeLabel

IPInit ==
    /\ ipT = NewTable(NumAddrs)
    /\ ipCall = NoCall

IPOnly == UNCHANGED <<locks, aoVars, lkVars, elVars, mdVars, nsVars, crVars, ckVars, ieVars, ndVars, dsVars, cvVars>>

\* reserve(addr, label)
IPReserve(addr, label) ==
    LET r == Reserve(ipT, addr, label)
    IN  /\ ipT' = r.table
        /\ ipCall' = [op |-> "reserve", addr |-> addr, label |-> label,
                      held |-> HeldAt(ipT, addr), raised |-> r.raised]
        /\ IPOnly

\* reserve_random_free_address(label)
IPReserveRandom(label) ==
    LET r == GetRandomFreeAddress(ipT, label)
    IN  /\ ipT' = r.table
        /\ ipCall' = [op |-> "random", addr |-> r.addr, label |-> label,
                      held |-> HeldAt(ipT, r.addr), raised |-> r.raised]
        /\ IPOnly

\* release(addr)
IPRelease(addr) ==
    /\ ipT' = Release(ipT, addr)
    /\ ipCall' = [op |-> "release", addr |-> addr, label |-> FreeLabel,
                  held |-> HeldAt(ipT, addr), raised |-> "none"]
    /\ IPOnly

(***************************************************************************)
(* The instance endpoints (src/shakenfist/external_api/app.py and          *)
(* instance.py).  Each handler stands behind a stack of decorators; the    *)
(* outer decorator runs first.                                             *)
(***************************************************************************)
IEUuids == {"i1"}

\* The references a request may carry; i9 names no stored instance.
IERefs == IEUuids \cup {"i9"}

IENamespaces == {"nsA", "nsB"}

IEIdents == IENamespaces \cup {"system"}

IENodes == {"sf-1", "sf-2"}

IEStates == {"created", "error", "deleted"}

IEEndpoints == {"get", "delete", "poweroff"}

\* What Instance.from_db returns for a reference nothing is stored under.
NoInst == [ns |-> "", state |-> "", node |-> "", power |-> ""]

from_db(ref) == IF ref \in IEUuids THEN ieDb[ref] ELSE NoInst

IEResponse(code, msg) == [code |-> code, msg |-> msg]

\* A decorator that calls the function it wraps.
Continue == IEResponse(0, "continue")

\* redirect_instance_request sends the request to the node of the instance.
Proxy == IEResponse(0, "proxy")

\* The decorators of an endpoint, the outer one first.
Decorators(api, ep) ==
    IF api = "app"
    THEN <<"jwt_required", "arg_is_instance_uuid", "requires_instance_ownership">>
         \o (IF ep = "poweroff"
             THEN <<"redirect_instance_request", "requires_instance_active">>
             ELSE <<>>)
    ELSE <<"verify_token", "arg_is_instance_ref", "requires_instance_ownership">>
         \o (CASE ep = "delete" -> <<"requires_namespace_exist">>
               [] ep = "poweroff" -> <<"redirect_instance_request",
                                       "requires_instance_active">>
               [] OTHER -> <<>>)
         \o <<"log_token_use">>

\* Decorators whose check is skipped: the mutant of Decorate drops the
\* ownership test.
DecorateNoOwnership(d, req, at) ==
    LET i == from_db(req.ref)
    IN  CASE d \in {"jwt_required", "verify_token"} ->
                IF req.token = "valid" THEN Continue ELSE IEResponse(401, "unauthorized")
          [] d \in {"arg_is_instance_uuid", "arg_is_instance_ref"} ->
                IF i = NoInst THEN IEResponse(404, "instance not found") ELSE Continue
          [] d = "requires_instance_ownership" ->
                IF i = NoInst THEN IEResponse(404, "instance not found") ELSE Continue
          [] d = "redirect_instance_request" ->
                IF i.node = "" THEN IEResponse(200, "None")
                ELSE IF i.node # at THEN Proxy ELSE Continue
          [] d = "requires_instance_active" ->
                IF i.state # "created" THEN IEResponse(406, "instance is not ready")
                ELSE Continue
          [] d = "requires_namespace_exist" ->
                IF req.namespace \in IENamespaces \cup {""} THEN Continue
                ELSE IEResponse(404, "namespace not found")
          [] OTHER -> Continue

\* One decorator applied to a request served at node at: it lets the call
\* continue, answers it, or proxies it.
Decorate(d, req, at) ==
    LET i == from_db(req.ref)
    IN  CASE d \in {"jwt_required", "verify_token"} ->
                IF req.token = "valid" THEN Continue ELSE IEResponse(401, "unauthorized")
          [] d \in {"arg_is_instance_uuid", "arg_is_instance_ref"} ->
                IF i = NoInst THEN IEResponse(404, "instance not found") ELSE Continue
          [] d = "requires_instance_ownership" ->
                IF i = NoInst \/ req.ident \notin {i.ns, "system"}
                THEN IEResponse(404, "instance not found")
                ELSE Continue
          [] d = "redirect_instance_request" ->
                IF i.node = "" THEN IEResponse(200, "None")
                ELSE IF i.node # at THEN Proxy ELSE Continue
          [] d = "requires_instance_active" ->
                IF i.state # "created" THEN IEResponse(406, "instance is not ready")
                ELSE Continue
          [] d = "requires_namespace_exist" ->
                IF req.namespace \in IENamespaces \cup {""} THEN Continue
                ELSE IEResponse(404, "namespace not found")
          [] OTHER -> Continue

\* The decorators run one after the other until one answers; a proxied
\* request runs the endpoint's decorators again at the instance's node, with
\* a token made for the caller's identity.
RECURSIVE Pipeline(_, _, _, _)
Pipeline(chain, req, at, trace) ==
    IF chain = <<>>
    THEN [verdict |-> Continue, at |-> at, trace |-> trace]
    ELSE LET d == Head(chain)
             r == Decorate(d, req, at)
         IN  IF r = Continue
             THEN Pipeline(Tail(chain), req, at, Append(trace, d))
             ELSE IF r = Proxy
             THEN Pipeline(Decorators(req.api, req.ep), [req EXCEPT !.token = "valid"],
                           from_db(req.ref).node, Append(trace, d))
             ELSE [verdict |-> r, at |-> at, trace |-> Append(trace, d)]

\* A delete handler that does not look at the instance's state: the mutant
\* of Handler.
HandlerNoDeletedCheck(req, at) ==
    LET i == from_db(req.ref)
        node == IF i.node = "" THEN at ELSE i.node
    IN  CASE req.ep = "get" ->
                [resp |-> IEResponse(200, "external_view"), db |-> ieDb, q |-> ieQ]
          [] req.ep = "delete" ->
                IF req.api = "instance" /\ req.namespace # "" /\ i.ns # req.namespace
                THEN [resp |-> IEResponse(404, "instance not in namespace"),
                      db |-> ieDb, q |-> ieQ]
                ELSE [resp |-> IEResponse(200, IF req.api = "app" THEN "None"
                                               ELSE "external_view"),
                      db |-> ieDb,
                      q |-> [ieQ EXCEPT ![node] = Append(@, req.ref)]]
          [] OTHER ->
                [resp |-> IEResponse(200, "power_off"),
                 db |-> [ieDb EXCEPT ![req.ref].power = "off"],
                 q |-> ieQ]

\* The function under the decorators, run at node at: its response, the
\* instance records and the queues it leaves.
Handler(req, at) ==
    LET i == from_db(req.ref)
        node == IF i.node = "" THEN at ELSE i.node
    IN  CASE req.ep = "get" ->
                [resp |-> IEResponse(200, "external_view"), db |-> ieDb, q |-> ieQ]
          [] req.ep = "delete" ->
                IF i.state = "deleted"
                THEN [resp |-> IEResponse(404, "instance not found"), db |-> ieDb, q |-> ieQ]
                ELSE IF req.api = "instance" /\ req.namespace # "" /\ i.ns # req.namespace
                THEN [resp |-> IEResponse(404, "instance not in namespace"),
                      db |-> ieDb, q |-> ieQ]
                ELSE [resp |-> IEResponse(200, IF req.api = "app" THEN "None"
                                               ELSE "external_view"),
                      db |-> ieDb,
                      q |-> [ieQ EXCEPT ![node] = Append(@, req.ref)]]
          [] OTHER ->
                [resp |-> IEResponse(200, "power_off"),
                 db |-> [ieDb EXCEPT ![req.ref].power = "off"],
                 q |-> ieQ]

\* The requests: only instance.py's delete takes a namespace argument, and
\* one request per endpoint carries a token that does not verify.
IERequests ==
    {r \in [api : {"app", "instance"}, ep : IEEndpoints, token : {"valid", "invalid"},
            ident : IEIdents, ref : IERefs, namespace : {"", "nsB"}] :
        /\ r.namespace # "" => (r.api = "instance" /\ r.ep = "delete")
        /\ r.token = "invalid" => (r.ident = "nsB" /\ r.ref = "i1" /\ r.namespace = "")}

PWProcs == {"w1"}

PowerOps == {"reboot", "poweron", "poweroff", "pause", "unpause"}

\* A power request handler that serves no request.
NoPw == [pc |-> "idle", api |-> "", op |-> "", ref |-> "", ran |-> "", code |-> 0]

\* The lock of an instance: db.get_lock('instance', None, instance_uuid) and
\* instance_from_db.get_lock.
IELockName(u) == <<"instance", u>>

NoIeLast ==
    [req |-> [api |-> "", ep |-> "", token |-> "", ident |-> "", ref |-> "",
              namespace |-> ""],
     at |-> "", resp |-> Continue, trace |-> <<>>, tick |-> 0]

IEInit ==
    /\ ieDb = [u \in IEUuids |-> [ns |-> "nsA", state |-> "created", node |-> "",
                                  power |-> "on"]]
    /\ ieQ = [n \in IENodes |-> <<>>]
    /\ ieLast = NoIeLast
    /\ iePw = [w \in PWProcs |-> NoPw]

IEOnly == UNCHANGED <<locks, aoVars, lkVars, elVars, mdVars, nsVars, crVars, ipVars, ckVars,
              ndVars, dsVars, cvVars>>

\* The number of tasks on the queues.
Tasks(q) == Len(q["sf-1"]) + Len(q["sf-2"])

\* One request served by the API of node at, from its first decorator to
\* its response.
IERequest(req, at) ==
    LET p == Pipeline(Decorators(req.api, req.ep), req, at, <<>>)
        h == Handler(req, p.at)
    IN  /\ IF p.verdict = Continue
           THEN /\ Tasks(h.q) <= MaxTasks
                /\ ieDb' = h.db
                /\ ieQ' = h.q
                /\ ieLast' = [req |-> req, at |-> at, resp |-> h.resp,
                              trace |-> Append(p.trace, "handler"),
                              tick |-> 1 - ieLast.tick]
           ELSE /\ ieLast' = [req |-> req, at |-> at, resp |-> p.verdict,
                              trace |-> p.trace, tick |-> 1 - ieLast.tick]
                /\ UNCHANGED <<ieDb, ieQ>>
        /\ UNCHANGED iePw
        /\ IEOnly

\* The daemon of node n takes the delete task at the head of its queue: the
\* instance goes to state deleted, its record stays.
IEDeleteWorker(n) ==
    /\ ieQ[n] # <<>>
    /\ LockFree(IELockName(Head(ieQ[n])))
    /\ ieDb' = [ieDb EXCEPT ![Head(ieQ[n])].state = "deleted"]
    /\ ieQ' = [ieQ EXCEPT ![n] = Tail(@)]
    /\ UNCHANGED <<ieLast, iePw>>
    /\ IEOnly

PWOnly == UNCHANGED <<aoVars, lkVars, elVars, mdVars, nsVars, crVars, ipVars, ckVars,
              ndVars, dsVars, cvVars>>

\* InstanceRebootSoft .. InstanceUnpause: the decorators of a power request
\* served at the instance's node.  A decorator answers, or the call reaches
\* the handler.
PWBegin(w, api, op, ident) ==
    LET req == [api |-> api, ep |-> "poweroff", token |-> "valid", ident |-> ident,
                ref |-> "i1", namespace |-> ""]
        p == Pipeline(Decorators(api, "poweroff"), req, from_db("i1").node, <<>>)
    IN  /\ iePw[w].pc = "idle"
        /\ iePw' = [iePw EXCEPT ![w] =
                       [pc |-> IF p.verdict = Continue THEN "checked" ELSE "idle",
                        api |-> api, op |-> op, ref |-> "i1", ran |-> "",
                        code |-> p.verdict.code]]
        /\ UNCHANGED <<locks, ieDb, ieQ, ieLast>>
        /\ PWOnly

\* The handler enters its with block: it waits for the instance's lock.
PWLock(w) ==
    /\ iePw[w].pc = "checked"
    /\ LockFree(IELockName(iePw[w].ref))
    /\ locks' = LockAcquired(IELockName(iePw[w].ref), w)
    /\ iePw' = [iePw EXCEPT ![w].pc = "locked"]
    /\ UNCHANGED <<ieDb, ieQ, ieLast>>
    /\ PWOnly

\* Under the lock the handler calls the operation on the instance and
\* leaves the with block.  app.py calls it whatever the stored state is;
\* instance.py answers 409 when the operation raises InvalidLifecycleState,
\* which the operation may do for an instance that left state created.
PWRun(w, raises) ==
    LET u == iePw[w].ref
    IN  /\ iePw[w].pc = "locked"
        /\ raises => (iePw[w].api = "instance" /\ ieDb[u].state # "created")
        /\ locks' = LockReleased(IELockName(u), w)
        /\ IF raises
           THEN /\ iePw' = [iePw EXCEPT ![w].pc = "idle", ![w].code = 409]
                /\ UNCHANGED ieDb
           ELSE /\ iePw' = [iePw EXCEPT ![w].pc = "idle", ![w].code = 200,
                                        ![w].ran = ieDb[u].state]
                /\ ieDb' = [ieDb EXCEPT ![u].power =
                                IF iePw[w].op \in {"poweroff", "pause"} THEN "off" ELSE "on"]
        /\ UNCHANGED <<ieQ, ieLast>>
        /\ PWOnly

(***************************************************************************)
(* AuthNamespace.delete (src/shakenfist/external_api/app.py, 487-519)      *)
(* next to the creation and deletion of instances and networks in the      *)
(* namespace.                                                              *)
(***************************************************************************)
NDProcs == {"d1"}

NDNamespaces == {"system", "nsA"}

\* The instances and networks requests create in namespace nsA.
NDInsts == {"i1", "i2"}

NDNets == {"net1"}

NoNdPc == [pc |-> "idle", ns |-> "", code |-> 0]

NDInit ==
    /\ ndStore = [rec |-> [n \in NDNamespaces |-> TRUE],
                  meta |-> [n \in NDNamespaces |-> TRUE],
                  insts |-> [i \in NDInsts |-> "none"],
                  nets |-> [n \in NDNets |-> "none"]]
    /\ ndPc = [p \in NDProcs |-> NoNdPc]

NDOnly ==
    UNCHANGED <<locks, aoVars, lkVars, elVars, mdVars, nsVars, crVars, ipVars, ckVars,
                ieVars, dsVars, cvVars>>

\* An answer of the delete handler: its request is over.
NDAnswer(p, code) == ndPc' = [ndPc EXCEPT ![p].pc = "idle", ![p].code = code]

\* Lines 491-494: the argument checks.
NDBegin(p, ns) ==
    /\ ndPc[p].pc = "idle"
    /\ ndPc' = [ndPc EXCEPT ![p] =
                   IF ns = "" THEN [pc |-> "idle", ns |-> ns, code |-> 400]
                   ELSE IF ns = "system" THEN [pc |-> "idle", ns |-> ns, code |-> 403]
                   ELSE [pc |-> "instances", ns |-> ns, code |-> 0]]
    /\ UNCHANGED ndStore
    /\ NDOnly

\* Lines 497-507: the instances of the namespace; one outside deleted and
\* error blocks the delete.
NDScanInstances(p) ==
    /\ ndPc[p].pc = "instances"
    /\ IF \E i \in NDInsts : ndStore.insts[i] \notin {"none", "deleted", "error"}
       THEN NDAnswer(p, 400)
       ELSE ndPc' = [ndPc EXCEPT ![p].pc = "networks"]
    /\ UNCHANGED ndStore
    /\ NDOnly

\* Lines 509-516: the networks of the namespace; one that is not dead blocks
\* the delete.
NDScanNetworks(p) ==
    /\ ndPc[p].pc = "networks"
    /\ IF \E n \in NDNets : ndStore.nets[n] \notin {"none", "dead"}
       THEN NDAnswer(p, 400)
       ELSE ndPc' = [ndPc EXCEPT ![p].pc = "delete"]
    /\ UNCHANGED ndStore
    /\ NDOnly

\* Lines 518-519: db.delete_namespace and db.delete_metadata.
NDDelete(p) ==
    /\ ndPc[p].pc = "delete"
    /\ ndStore' = [ndStore EXCEPT !.rec[ndPc[p].ns] = FALSE, !.meta[ndPc[p].ns] = FALSE]
    /\ NDAnswer(p, 200)
    /\ NDOnly

\* Instances.post of a caller of the namespace: Instance.new.
NDCreateInstance(i) ==
    /\ ndStore.rec["nsA"]
    /\ ndStore.insts[i] = "none"
    /\ ndStore' = [ndStore EXCEPT !.insts[i] = "created"]
    /\ UNCHANGED ndPc
    /\ NDOnly

\* The instance is deleted, or ends in error.
NDInstanceEnds(i, st) ==
    /\ ndStore.insts[i] = "created"
    /\ ndStore' = [ndStore EXCEPT !.insts[i] = st]
    /\ UNCHANGED ndPc
    /\ NDOnly

\* Networks.post of a caller of the namespace.
NDCreateNetwork(n) ==
    /\ ndStore.rec["nsA"]
    /\ ndStore.nets[n] = "none"
    /\ ndStore' = [ndStore EXCEPT !.nets[n] = "created"]
    /\ UNCHANGED ndPc
    /\ NDOnly

\* The network is deleted: is_dead() holds from then on.
NDNetworkDies(n) ==
    /\ ndStore.nets[n] = "created"
    /\ ndStore' = [ndStore EXCEPT !.nets[n] = "dead"]
    /\ UNCHANGED ndPc
    /\ NDOnly

(***************************************************************************)
(* upgrade_data_store (src/shakenfist/eventlog.py, 68-124) on the          *)
(* directory of one object type.  A file name is the name of its object    *)
(* followed by a suffix; the name of an object is a sequence of            *)
(* characters.  A database holds events, of which the model keeps the      *)
(* year and month of the timestamp.                                        *)
(***************************************************************************)
DSNames == {<<"a">>, <<"a", "b">>, <<"a", "b", "c">>, <<"c", "d", "e">>}

DSMonths == {202302, 202303}

\* objuuid[0:2]
Prefix(name) == SubSeq(name, 1, IF Len(name) < 2 THEN Len(name) ELSE 2)

NoFs == [root |-> {}, dirs |-> {}, shard |-> {}, marker |-> 0]

NoDsCall == [pc |-> "idle", outcome |-> "none", start |-> 0, version |-> 0,
             todo |-> {}, wrote |-> FALSE, before |-> NoFs]

DSInit ==
    /\ dsFs = NoFs
    /\ dsCall = NoDsCall

\* The stores of layout version 1: a database per object in the directory of
\* the type, some with a lock file next to them, no shard directory and no
\* version marker.
DSStores ==
    {[root |-> {[name |-> n, ext |-> "", months |-> {has[n].month}] :
                    n \in {m \in DSNames : has[m].db}}
               \cup {[name |-> n, ext |-> ".lock", months |-> {}] :
                    n \in {m \in DSNames : has[m].db /\ has[m].lock}},
      dirs |-> {}, shard |-> {}, marker |-> 0] :
        has \in [DSNames -> [db : BOOLEAN, lock : BOOLEAN, month : DSMonths]]}

DSOnly ==
    UNCHANGED <<locks, aoVars, lkVars, elVars, mdVars, nsVars, crVars, ipVars, ckVars,
                ieVars, ndVars, cvVars>>

\* os.path.exists of a file of the type directory.
RootHas(fs, name, ext) == \E e \in fs.root : e.name = name /\ e.ext = ext

\* os.listdir: the names of the files and of the directories.
ListDir(fs) ==
    {[name |-> e.name, ext |-> e.ext] : e \in fs.root}
        \cup {[name |-> d, ext |-> ""] : d \in fs.dirs}

\* os.path.isdir
IsDir(fs, ent) == ent.ext = "" /\ ent.name \in fs.dirs

\* os.makedirs(path, exist_ok=True): FileExistsError when the path is a
\* regular file.
MakeDirs(fs, d) ==
    IF d \in fs.dirs THEN [fs |-> fs, raised |-> FALSE]
    ELSE IF RootHas(fs, d, "") THEN [fs |-> fs, raised |-> TRUE]
    ELSE [fs |-> [fs EXCEPT !.dirs = @ \cup {d}], raised |-> FALSE]

\* os.rename inside the type directory: the file gets another suffix.
RenameInRoot(fs, name, ext, to) ==
    [fs EXCEPT !.root = {IF e.name = name /\ e.ext = ext
                         THEN [e EXCEPT !.ext = to] ELSE e : e \in @}]

\* os.rename into a shard directory, replacing a file of that name.
RenameToShard(fs, name, ext, dir, to) ==
    LET e == CHOOSE f \in fs.root : f.name = name /\ f.ext = ext
    IN  [fs EXCEPT !.root = @ \ {e},
                   !.shard = {f \in @ : ~(f.dir = dir /\ f.name = name /\ f.ext = to)}
                                \cup {[dir |-> dir, name |-> name, ext |-> to,
                                       months |-> e.months]}]

LockOf(ext) == IF ext = ".mv" THEN ".mv.lock" ELSE ".lock"

\* Lines 90-112, the body of the loop for one entry of the listing.
MigrateEnt(fs, ent) ==
    IF IsDir(fs, ent) \/ ent.ext = ".lock" THEN [fs |-> fs, raised |-> FALSE]
    ELSE LET short == Len(ent.name) = 2
             fs1 == IF short THEN RenameInRoot(fs, ent.name, "", ".mv") ELSE fs
             fs2 == IF short /\ RootHas(fs1, ent.name, ".lock")
                    THEN RenameInRoot(fs1, ent.name, ".lock", ".mv.lock") ELSE fs1
             ext == IF short THEN ".mv" ELSE ""
             made == MakeDirs(fs2, Prefix(ent.name))
             moved == RenameToShard(made.fs, ent.name, ext, Prefix(ent.name), ".202303")
         IN  IF made.raised THEN made
             ELSE [fs |-> IF RootHas(moved, ent.name, LockOf(ext))
                          THEN RenameToShard(moved, ent.name, LockOf(ext),
                                             Prefix(ent.name), ".lock")
                          ELSE moved,
                   raised |-> FALSE]

\* Lines 70-90: the version of the marker, 1 without a marker, and for
\* version 1 the listing of the type directory.
DSBegin ==
    LET version == IF dsFs.marker # 0 THEN dsFs.marker ELSE 1
    IN  /\ dsCall.pc = "idle"
        /\ dsCall' = [pc |-> IF version = 1 THEN "loop" ELSE "finish",
                      outcome |-> "none", start |-> version,
                      version |-> IF version = 1 THEN 2 ELSE version,
                      todo |-> IF version = 1 THEN ListDir(dsFs) ELSE {},
                      wrote |-> FALSE, before |-> dsFs]
        /\ UNCHANGED dsFs
        /\ DSOnly

\* One pass of the loop of line 90: os.listdir returns the entries in
\* arbitrary order.  An exception ends the call.
DSMigrateEnt(ent) ==
    LET r == MigrateEnt(dsFs, ent)
    IN  /\ dsCall.pc = "loop"
        /\ ent \in dsCall.todo
        /\ dsFs' = r.fs
        /\ dsCall' = IF r.raised
                     THEN [dsCall EXCEPT !.pc = "idle", !.outcome = "FileExistsError",
                                         !.todo = {}]
                     ELSE [dsCall EXCEPT !.todo = @ \ {ent}]
        /\ DSOnly

\* Lines 116-124: the marker is written when the version changed.
DSFinish ==
    /\ dsCall.pc \in {"loop", "finish"}
    /\ dsCall.todo = {}
    /\ dsFs' = IF dsCall.start # dsCall.version
               THEN [dsFs EXCEPT !.marker = dsCall.version] ELSE dsFs
    /\ dsCall' = [dsCall EXCEPT !.pc = "idle", !.outcome = "ok",
                                !.wrote = dsCall.start # dsCall.version]
    /\ DSOnly

(***************************************************************************)
(* InstancesEndpoint.post (src/shakenfist/external_api/instance.py,        *)
(* 122-500): the checks of the request, the translation of disks and NVRAM *)
(* template, and the creation of the instance.  A url is its prefix        *)
(* (label:, the blob url, or none of them) and what follows the prefix.    *)
(* The request has UEFI enabled, a usable name, a trusted namespace and no *)
(* placed_on; its network has free addresses and a node has room for the   *)
(* instance, so that the steps after Instance.new succeed.                 *)
(***************************************************************************)
MaxPosts == 1

Url(prefix, rest) == [prefix |-> prefix, rest |-> rest]

NoUrl == Url("", "")

\* The label artifacts of the caller's namespace in state created, and the
\* blob each resolves to.
CVLabels == {"l1"}

ResolveToBlob(label) == IF label = "l1" THEN "b1" ELSE ""

\* The networks of the caller's namespace and their states.
CVNetState(n) == CASE n = "n1" -> "created"
                   [] n = "n2" -> "deleted"
                   [] OTHER -> "none"

Disk(base, bus) == [base |-> base, bus |-> bus]

CVDisks ==
    {<<>>,
     <<Disk(NoUrl, "")>>,
     <<Disk(Url("blob", "b2"), "")>>,
     <<Disk(Url("label:", "l1"), "")>>,
     <<Disk(Url("label:", "lx"), "")>>,
     <<Disk(Url("http", "img"), "ide")>>,
     <<Disk(Url("http", "img"), "ide"), Disk(Url("label:", "lx"), "")>>,
     <<Disk(Url("label:", "l1"), ""), Disk(Url("blob", "b2"), "")>>,
     <<Disk(Url("blob", "b2"), ""), Disk(Url("label:", "l1"), "")>>}

CVTemplates == {NoUrl, Url("label:", "l1"), Url("label:", "lx"), Url("blob", "b3")}

CVRequests ==
    {[vdi_type |-> "vnc", secure_boot |-> s, disk |-> d, nvram_template |-> t,
      network |-> ""] : s \in BOOLEAN, d \in CVDisks, t \in CVTemplates}
    \cup {[vdi_type |-> "vnc", secure_boot |-> FALSE, disk |-> d, nvram_template |-> NoUrl,
           network |-> n] : d \in CVDisks, n \in {"n1", "n2", "nx"}}
    \cup {[vdi_type |-> "telnet", secure_boot |-> FALSE, disk |-> <<Disk(NoUrl, "")>>,
           nvram_template |-> NoUrl, network |-> ""]}

NoCvStore == [artifacts |-> {}, instances |-> <<>>, interfaces |-> 0, reservations |-> 0,
              tasks |-> 0]

NoCvCall == [req |-> [vdi_type |-> "", secure_boot |-> FALSE, disk |-> <<>>,
                      nvram_template |-> NoUrl, network |-> ""],
             code |-> 0, before |-> NoCvStore]

CVInit ==
    /\ cvStore = NoCvStore
    /\ cvCall = NoCvCall

CVOnly ==
    UNCHANGED <<locks, aoVars, lkVars, elVars, mdVars, nsVars, crVars, ipVars, ckVars,
                ieVars, ndVars, dsVars>>

\* Lines 204-216 and 263-279: Artifact.from_url of a label, the safety
\* checks and resolve_to_blob.  The result is the blob, or "" for an error.
LabelBlob(label) == IF label \in CVLabels THEN ResolveToBlob(label) ELSE ""

\* Lines 192-254, the loop over the disks from disk k on.  blob_uuid is the
\* local variable of the handler, "unbound" until a branch assigns it.
RECURSIVE DiskLoop(_, _, _)
DiskLoop(disk, k, s) ==
    IF k > Len(disk) THEN s
    ELSE LET d == disk[k]
             keep(blob) == [base |-> d.base, bus |-> d.bus, blob_uuid |-> blob]
         IN  CASE d.base = NoUrl ->
                    DiskLoop(disk, k + 1, [s EXCEPT !.out = Append(@, keep(""))])
               [] d.base.prefix = "label:" ->
                    IF LabelBlob(d.base.rest) = ""
                    THEN [s EXCEPT !.code = 404]
                    ELSE DiskLoop(disk, k + 1,
                                  [s EXCEPT !.blob_uuid = LabelBlob(d.base.rest),
                                            !.out = Append(@, keep(LabelBlob(d.base.rest)))])
               [] d.base.prefix = "blob" ->
                    DiskLoop(disk, k + 1, [s EXCEPT !.out = Append(@, keep(d.base.rest))])
               [] OTHER ->
                    DiskLoop(disk, k + 1,
                             [s EXCEPT !.artifacts = @ \cup {d.base},
                                       !.out = Append(@, keep(""))])

\* Lines 258-289: the NVRAM template.  The blob branch strips the prefix and
\* then assigns the local variable blob_uuid, which only the label, snapshot
\* and upload branches of the handler set: unbound, the read raises
\* UnboundLocalError and the request ends in a 500.
NvramTemplate(t, blob_uuid) ==
    CASE t = NoUrl -> [code |-> 0, value |-> ""]
      [] t.prefix = "label:" ->
            IF LabelBlob(t.rest) = "" THEN [code |-> 404, value |-> ""]
            ELSE [code |-> 0, value |-> LabelBlob(t.rest)]
      [] t.prefix = "blob" ->
            IF blob_uuid = "unbound" THEN [code |-> 500, value |-> ""]
            ELSE [code |-> 0, value |-> blob_uuid]
      [] OTHER -> [code |-> 0, value |-> t.rest]

\* Lines 299-334: the network of the request.
NetworkCheck(n) ==
    CASE n = "" -> 0
      [] CVNetState(n) = "none" -> 404
      [] CVNetState(n) # "created" -> 406
      [] OTHER -> 0

\* The handler: the answer and the store it leaves.
CVHandler(req, store) ==
    LET refuse(code, st) == [code |-> code, store |-> st]
        machine_type == IF req.secure_boot THEN "q35" ELSE "pc"
        disks == DiskLoop(req.disk, 1, [code |-> 0, blob_uuid |-> "unbound", out |-> <<>>,
                                        artifacts |-> store.artifacts])
        seen == [store EXCEPT !.artifacts = disks.artifacts]
        nvram == NvramTemplate(req.nvram_template, disks.blob_uuid)
        net == NetworkCheck(req.network)
        inst == [disk_spec |-> disks.out, nvram_template |-> nvram.value,
                 machine_type |-> machine_type]
    IN  IF req.vdi_type \notin {"vnc", "spice"} THEN refuse(400, store)
        ELSE IF req.disk = <<>> THEN refuse(400, store)
        ELSE IF disks.code # 0 THEN refuse(disks.code, seen)
        ELSE IF nvram.code # 0 THEN refuse(nvram.code, seen)
        ELSE IF machine_type = "q35" /\ \E k \in 1..Len(disks.out) : disks.out[k].bus = "ide"
             THEN refuse(400, seen)
        ELSE IF net # 0 THEN refuse(net, seen)
        ELSE [code |-> 200,
              store |-> [seen EXCEPT !.instances = Append(@, inst),
                                     !.interfaces = @ + (IF req.network # "" THEN 1 ELSE 0),
                                     !.reservations = @ + (IF req.network # "" THEN 1 ELSE 0),
                                     !.tasks = @ + 1]]

\* POST /instances
CVPost(req) ==
    LET r == CVHandler(req, cvStore)
    IN  /\ Len(cvStore.instances) < MaxPosts
        /\ cvStore' = r.store
        /\ cvCall' = [req |-> req, code |-> r.code, before |-> cvStore]
        /\ CVOnly

(***************************************************************************)
(* Specifications.                                                         *)
(***************************************************************************)
NextAgentOp ==
    \E p \in AOProcs :
        \/ AONewExisting(p)
        \/ AONewLookup(p)
        \/ AONewCreate(p)
        \/ \E t \in AOStates \ {STATE_DELETED} : AOSetBegin(p, t)
        \/ AODelete(p)
        \/ AOSetRead(p)
        \/ AOSetWrite(p)

\* Every subsystem starts from its initial state.
InitAll ==
    /\ locks = {} /\ AOInit /\ LKInit /\ ELInit /\ elCwd = "other" /\ MDInit /\ NSInit
    /\ CKInit /\ IEInit /\ NDInit /\ DSInit /\ CVInit /\ CRInit /\ IPInit /\ crApi = "app" /\ netExists = AllNets /\ nodeReady = [n \in Nodes |-> TRUE]

InitAgentOp == InitAll

SpecAgentOp == InitAgentOp /\ [][NextAgentOp]_vars

\* The (state, target) pairs of AgentOperation's transition table.
C1_LegalPairs ==
    {<<"None", STATE_CREATED>>, <<"None", STATE_ERROR>>,
     <<STATE_CREATED, STATE_DELETED>>, <<STATE_CREATED, STATE_ERROR>>,
     <<STATE_CREATED, STATE_QUEUED>>,
     <<STATE_QUEUED, STATE_DELETED>>, <<STATE_QUEUED, STATE_ERROR>>,
     <<STATE_QUEUED, STATE_EXECUTING>>,
     <<STATE_EXECUTING, STATE_DELETED>>, <<STATE_EXECUTING, STATE_ERROR>>,
     <<STATE_EXECUTING, STATE_COMPLETE>>}

C11_StateChangeSerialized ==
    \A p, q \in AOProcs :
        (p # q /\ aoPc[p] = "set_write" /\ aoPc[q] = "set_write")
            => aoLocal[p].read # aoLocal[q].read

\* C12: AgentOperation.new is an atomic create-if-absent.  A caller of new
\* never fails, a stored record is never replaced, a caller of new writes
\* created only over the initial pseudo-state (so the state becomes created
\* once), and new on an existing uuid (the one step that moves no caller)
\* changes neither the record nor the state.
C12_AtomicCreateIfAbsent ==
    [][\A p \in AOProcs :
         /\ aoLocal'[p].op = "new" => aoResult'[p] # "InvalidLifecycleState"
         /\ aoRec # "none" => aoRec' = aoRec
         /\ (aoLocal[p].op = "new" /\ aoPc[p] = "set_write" /\ aoPc'[p] = "idle")
                => aoState = "None"
         /\ (aoPc' = aoPc /\ aoResult'[p] = "existing")
                => (aoRec' = aoRec /\ aoState' = aoState /\ aoUpdated' = aoUpdated)]_vars

NextEventLock ==
    \E p \in ELProcs :
        \/ \E op \in ELOps : LKOpen(p, op)
        \/ LKEnter(p)
        \/ LKExit(p)
        \/ LKUnlink(p)

InitEventLock == InitAll

SpecEventLock == InitEventLock /\ [][NextEventLock]_vars

\* C5: for one object, at most one process at a time is inside write_event,
\* read_events, prune_old_events or delete of its EventLog.
C5_OneProcessInside ==
    Cardinality({p \in ELProcs : lkPc[p] = "inside"}) <= 1
NextEventLog ==
    \/ \E ts \in Timestamps, msg \in Msgs : ELWriteEvent(ts, msg)
    \/ \E limit \in 1..(MaxEvents + 1) : ELReadEvents(limit)

InitEventLog ==
    /\ locks = {} /\ AOInit /\ LKInit /\ MDInit /\ NSInit
    /\ CKInit /\ IEInit /\ NDInit /\ DSInit /\ CVInit /\ CRInit /\ IPInit /\ crApi = "app" /\ netExists = AllNets /\ nodeReady = [n \in Nodes |-> TRUE]
    /\ ELInit /\ elCwd \in {"dbdir", "other"}

SpecEventLog == InitEventLog /\ [][NextEventLog]_vars

\* No write_event so far met a taken timestamp: the stored events are the
\* written ones, with pairwise distinct timestamps.
ELReadAfterDistinctWrites ==
    /\ elResult.op = "read_events"
    /\ AllRows # {}
    /\ elResult.limit >= Cardinality(AllRows)
    /\ Cardinality(RowTs(AllRows)) = Cardinality(AllRows)

\* C6: after writing N events with pairwise distinct timestamps, read_events
\* with limit >= N returns exactly those N event records, newest first.
C6_RoundTrip ==
    ELReadAfterDistinctWrites =>
        /\ elResult.outcome = "ok"
        /\ elResult.value = SortedDesc(AllRows)
Range(seq) == {seq[i] : i \in 1..Len(seq)}

\* The last write_event asked for a timestamp its chunk already held while
\* the next one was free.
ELLastWriteCollided ==
    /\ elLastWrite.ts \in RowTs(elLastWrite.before)
    /\ (elLastWrite.ts + 1) \notin RowTs(elLastWrite.before)

\* C7: a write_event whose timestamp is already stored succeeds: the new event
\* is stored one increment later, the earlier event stays, a following
\* read_events with a large enough limit returns both, and no two events of
\* one chunk share a timestamp.
C7_SameTimestampBothKept ==
    /\ \A c \in ChunkNames : \A r, q \in elChunks[c].rows : r.ts = q.ts => r = q
    /\ ELLastWriteCollided =>
           /\ elLastWrite.stored = elLastWrite.ts + 1
           /\ elLastWrite.before \subseteq elChunks[ChunkName(elLastWrite.ts)].rows
           /\ [ts |-> elLastWrite.stored, msg |-> elLastWrite.msg]
                  \in elChunks[ChunkName(elLastWrite.ts)].rows
    /\ (ELLastWriteCollided /\ elResult.op = "read_events"
            /\ elResult.limit >= Cardinality(AllRows)) =>
           /\ elResult.outcome = "ok"
           /\ [ts |-> elLastWrite.stored, msg |-> elLastWrite.msg] \in Range(elResult.value)
           /\ \E r \in Range(elResult.value) : r.ts = elLastWrite.ts

\* The chunks of the object on disk, newest month first.
ChunksDesc == NamesDesc({c \in ChunkNames : elChunks[c].present})

\* Rows accumulated chunk by chunk: each chunk is asked for the rows still
\* missing, newest first, until limit rows are there.
RECURSIVE Accumulated(_, _, _)
Accumulated(names, limit, events) ==
    IF names = <<>> \/ Len(events) >= limit THEN events
    ELSE Accumulated(Tail(names), limit,
             events \o ChunkReadEvents(elChunks[Head(names)].rows, limit - Len(events)))

\* C20: read_events(limit) returns at most limit events: it visits the
\* chunks of the object in descending (year, month) order, asks each chunk
\* for the rows still missing only, stops once limit rows are accumulated,
\* and the rows of a chunk come newest first.
C20_ReadUpToLimit ==
    elResult.op = "read_events" =>
        /\ elResult.outcome = "ok"
        /\ Len(elResult.value) <= elResult.limit
        /\ elResult.value = Accumulated(ChunksDesc, elResult.limit, <<>>)

\* Events are written and pruned.
NextPrune ==
    \/ \E ts \in Timestamps, msg \in Msgs : ELWriteEvent(ts, msg)
    \/ \E before \in {MonthLen, MaxTs + 1}, message \in {""} \cup Msgs, limit \in 1..2 :
           ELPruneOldEvents(before, message, limit)

SpecPrune == InitEventLog /\ [][NextPrune]_vars

\* The rows the last prune_old_events removed.
Removed == elPruned.rows \ AllRows

\* C21: prune_old_events(before, message, limit) removes at most limit
\* events over all chunks of the object, returns the number it removed,
\* removes only events with a timestamp below before (and with the message,
\* when one is given) and leaves every other event as it was.
C21_PruneBounded ==
    elResult.op = "prune_old_events" =>
        /\ elResult.outcome = "ok"
        /\ AllRows \subseteq elPruned.rows
        /\ Cardinality(Removed) <= elPruned.limit
        /\ elPruned.removed = Cardinality(Removed)
        /\ \A r \in Removed : Matches(r, elPruned.before, elPruned.message)

\* The rows that matched the last prune_old_events when it was called.
Matching == {r \in elPruned.rows : Matches(r, elPruned.before, elPruned.message)}

\* C22: when more events match than limit allows, prune_old_events removes
\* limit of them, from the oldest affected chunk first: no matching event of
\* a newer chunk is removed while a matching event of an older chunk stays.
C22_OldestChunkFirst ==
    (elResult.op = "prune_old_events" /\ Cardinality(Matching) > elPruned.limit) =>
        /\ elResult.outcome = "ok"
        /\ Cardinality(Removed) = elPruned.limit
        /\ \A r \in Removed, q \in Matching \cap AllRows :
               ChunkName(r.ts) <= ChunkName(q.ts)

\* A chunk file left by any release, or none, holding events written
\* before now; write_event is called on it again and again.
InitUpgrade ==
    /\ locks = {} /\ AOInit /\ LKInit /\ ELInit /\ elCwd = "other" /\ MDInit /\ NSInit
    /\ IEInit /\ NDInit /\ DSInit /\ CVInit /\ CRInit /\ IPInit /\ crApi = "app" /\ netExists = AllNets /\ nodeReady = [n \in Nodes |-> TRUE]
    /\ ckStart \in 0..VERSION
    /\ IF ckStart = 0 THEN ckDisk = NoFile
       ELSE \E stamps \in SUBSET (0..MaxCkTs) :
               ckDisk = [exists |-> TRUE, version |-> ckStart,
                         rows |-> {[ts |-> t, msg |-> "m1"] : t \in stamps}]
    /\ ckPending = {}
    /\ ckPc = "never"
    /\ ckClock = CkEpoch

NextUpgrade ==
    \/ CKOpen
    \/ \E ts \in 0..MaxCkTs, msg \in Msgs : CKWriteEvent(ts, msg)
    \/ CKClose

SpecUpgrade == InitUpgrade /\ [][NextUpgrade]_vars

\* The audit rows of the stored chunk with a given message.
Audit(msg) == {r \in ckDisk.rows : r.msg = msg}

\* C23: once a chunk that was stored at version v < 4 has been opened and
\* closed, the steps v to v+1, ..., 3 to 4 have been applied in increasing
\* order, none skipped: the stored version is 4 and the chunk holds one
\* audit event for each of these steps, in the order of the steps, and one
\* for the compaction.  A chunk that was at version 4 or was created by the
\* open holds no audit event, and no later open adds one.
C23_UpgradeInOrder ==
    ckPc = "closed" =>
        /\ ckDisk.version = VERSION
        /\ \A k \in 2..VERSION :
               Cardinality(Audit(UpgradedTo(k))) =
                   IF ckStart \in 1..(VERSION - 1) /\ k > ckStart THEN 1 ELSE 0
        /\ \A k, j \in 2..VERSION : \A r \in Audit(UpgradedTo(k)), q \in Audit(UpgradedTo(j)) :
               k < j => r.ts < q.ts
        /\ Cardinality(Audit(Compacted)) =
               IF ckStart \in 1..(VERSION - 1) THEN 1 ELSE 0

\* Events are written, read and pruned while chunk files go bad.
NextCorrupt ==
    \/ \E ts \in Timestamps, msg \in Msgs : ELWriteEvent(ts, msg)
    \/ ELReadEvents(MaxEvents + 1)
    \/ ELPruneOldEvents(MaxTs + 1, "", 1)
    \/ \E c \in ChunkNames : ELCorrupt(c)

SpecCorrupt == InitEventLog /\ [][NextCorrupt]_vars

\* The rows of the chunks whose file is readable.
ReadableRows == UNION {elChunks[c].rows : c \in ChunkNames \ elCorrupt}

\* C24: with a corrupted chunk, write_event, read_events and
\* prune_old_events of the object still succeed; a write_event for the month
\* of a corrupted chunk leaves that chunk renamed aside, no longer at the
\* chunk's path; and read_events with a large enough limit returns the
\* events of the other months.
C24_CorruptChunkIsolated ==
    [][(elCorrupt # {} /\ elCorrupt' = elCorrupt) =>
          /\ elResult'.outcome = "ok"
          /\ elResult'.op = "write_event" => ChunkName(elLastWrite'.ts) \notin elCorrupt
          /\ elResult'.op = "read_events" =>
                 \A r \in ReadableRows :
                     \E k \in 1..Len(elResult'.value) : elResult'.value[k] = r]_vars

\* The timestamps write_event tries when it makes n insert attempts.
Tried(n) == {elLastWrite.ts + i : i \in 0..(n - 1)}

\* What a write_event that makes n insert attempts leaves behind: the event
\* at the first free timestamp tried, or nothing at all when none is free;
\* the call returns normally either way.
WriteOutcome(n) ==
    LET c == ChunkName(elLastWrite.ts)
        free == Tried(n) \ RowTs(elLastWrite.before)
    IN  /\ elResult.outcome = "ok"
        /\ IF free = {}
           THEN /\ elLastWrite.stored = -1
                /\ elChunks[c].rows = elLastWrite.before
           ELSE /\ elLastWrite.stored = CHOOSE t \in free : \A u \in free : t <= u
                /\ elChunks[c].rows = elLastWrite.before
                       \cup {[ts |-> elLastWrite.stored, msg |-> elLastWrite.msg]}

NextMetadata ==
    \/ \E p \in MDProcs, api \in {"app", "instance"}, op \in {"set", "delete"},
          owner \in MDOwners, key \in MDKeys \cup {""}, value \in MDValues \cup {""} :
           MDRequest(p, api, op, owner, key, value)
    \/ \E p \in MDProcs : MDAcquire(p)
    \/ \E p \in MDProcs : MDRead(p)
    \/ \E p \in MDProcs : MDPersist(p)

InitMetadata == InitAll

SpecMetadata == InitMetadata /\ [][NextMetadata]_vars

\* A handler is between its read of the map and the end of its with block.
MDInside(p) == mdPc[p] \in {"locked", "persist"}

\* The step of a delete handler that finds its key missing.
MDDeleteAbsent(p) ==
    /\ mdPc[p] = "locked"
    /\ mdPc'[p] # "locked"
    /\ mdReq[p].op = "delete"
    /\ mdStore[mdReq[p].owner].none \/ mdStore[mdReq[p].owner].map[mdReq[p].key] = "absent"

NextNamespace ==
    \/ \E p \in NSProcs, op \in {"create", "add", "put", "delete"},
          ns \in Namespaces \cup {""}, key_name \in KeyNames \cup {"service_key", ""},
          key \in Secrets \cup {""} :
           NSRequest(p, op, ns, key_name, key)
    \/ \E p \in NSProcs : NSAcquire(p)
    \/ \E p \in NSProcs : NSRead(p)
    \/ \E p \in NSProcs : NSPersist(p)

InitNamespace == InitAll

SpecNamespace == InitNamespace /\ [][NextNamespace]_vars

\* C10: the read-modify-write operations on one namespace's record (create
\* with a key, add or replace a key, delete a key) exclude each other, so
\* once every request is answered the stored record is the one the finished
\* requests give one after the other: after a key add and a key delete in
\* any interleaving the key list reflects both.
C10_NoLostKeyUpdate ==
    (\A p \in NSProcs : nsPc[p] = "idle") => nsRec = nsGhost
NextCreate ==
    \/ \E c \in CRProcs, req \in CreateRequests : CRBegin(c, req)
    \/ \E c \in CRProcs : CRNetMissing(c)
    \/ \E c \in CRProcs : CRNoAddress(c)
    \/ \E c \in CRProcs : CRLock(c)
    \/ \E c \in CRProcs : CRLoadReserve(c)
    \/ \E c \in CRProcs : CRPersist(c)
    \/ \E c \in CRProcs : CRReserve(c)
    \/ \E p \in FLProcs, key \in {[inst |-> n.inst, order |-> n.order] : n \in ifaces} :
           FLRequest(p, key)
    \/ \E p \in CRProcs \cup FLProcs : FLNoNetwork(p)
    \/ \E p \in CRProcs \cup FLProcs : FLLock(p)
    \/ \E p \in CRProcs \cup FLProcs : FLLoadReserve(p)
    \/ \E p \in CRProcs \cup FLProcs : FLPersist(p)
    \/ \E c \in CRProcs : CRFloatInstance(c)
    \/ \E c \in CRProcs : CRSchedule(c)
    \/ \E i \in Instances : DeleteWorker(i)

InitCreate ==
    /\ locks = {} /\ AOInit /\ LKInit /\ ELInit /\ elCwd = "other" /\ MDInit /\ NSInit
    /\ CKInit /\ IEInit /\ NDInit /\ DSInit /\ CVInit /\ CRInit /\ IPInit
    /\ crApi \in {"app", "instance"}
    /\ netExists \in {AllNets, AllNets \ {"floating"}}
    /\ nodeReady \in [Nodes -> BOOLEAN]

SpecCreate == InitCreate /\ [][NextCreate]_vars

\* Handler c stands at the reserve of the address its head network
\* description names, and another label holds that address.
CRAtConflict(c) ==
    /\ crReq[c].nets # <<>>
    /\ IF crApi = "app" THEN crPc[c] = "locked"
       ELSE crPc[c] = "net" /\ Head(crReq[c].nets).net \in netExists
    /\ Head(crReq[c].nets).how = "explicit"
    /\ ipam[Head(crReq[c].nets).net].res[Head(crReq[c].nets).address]
           \notin {FreeLabel, InstLabel(Inst(c))}

CRPlacing(c) == crPc[c] = "net" /\ crReq[c].nets = <<>> /\ crPc'[c] = "done"

\* The candidates of the placement call of handler c.
CRCandidates(c) ==
    {n \in Nodes : nodeReady[n] /\ crReq[c].placed_on \in {"", n}}

\* The sum of two requirements.
Both(a, b) == Need(a.cpus + b.cpus, a.memory + b.memory, a.disk + b.disk)

\* C18: a placement call records only a candidate node whose free resources
\* at the time of the call cover the instance's CPU, memory and disk
\* requirements; it raises LowResourceException exactly when there are
\* candidates and every one fails them; and when a node that holds
\* instance A fits A but not A plus B, the call for B records another node
\* or raises LowResourceException.
C18_HardResources ==
    [][\A c \in CRProcs :
          CRPlacing(c) =>
            /\ placement'[Inst(c)] # ""
                  => /\ placement'[Inst(c)] \in CRCandidates(c)
                     /\ Fits(crReq[c].need, FreeNow(placement'[Inst(c)]))
            /\ (crResult'[c].why = "LowResourceException")
                  <=> /\ CRCandidates(c) # {}
                      /\ \A n \in CRCandidates(c) : ~Fits(crReq[c].need, FreeNow(n))
            /\ \A a \in Instances \ {Inst(c)}, n \in CRCandidates(c) :
                  (/\ placement[a] = n
                   /\ Fits(instNeed[a], NodeFree[n])
                   /\ ~Fits(Both(instNeed[a], crReq[c].need), NodeFree[n]))
                      => /\ placement'[Inst(c)] # n
                         /\ \/ placement'[Inst(c)] \in CRCandidates(c)
                            \/ crResult'[c].why = "LowResourceException"]_vars

\* C18 witness: node1 is the only ready node and holds instance A, which it
\* fits; the call for B, which no longer fits there, raised
\* LowResourceException.
C18_Witness ==
    \E c \in CRProcs : \E a \in Instances \ {Inst(c)} :
        /\ nodeReady = [n \in Nodes |-> n = "node1"]
        /\ placement[a] = "node1" /\ placement[Inst(c)] = ""
        /\ instNeed[a] = Need(1, 1, 1) /\ instNeed[Inst(c)] = Need(1, 1, 1)
        /\ crPc[c] = "done" /\ crResult[c].why = "LowResourceException"

\* A request pinned to a node that does not exist or is not ready.
BadPin(req) ==
    req.placed_on # "" /\ ~(req.placed_on \in Nodes /\ nodeReady[req.placed_on])

\* C19: a create request pinned to a node that does not exist or is not in
\* state created is answered 404 before the instance is created: no
\* instance, no address reserved, no task queued.  When the placement call
\* of a pinned request succeeds, the placement recorded and the queue that
\* receives the task list are that node.  A CandidateNodeNotFoundException
\* of the scheduler, raised when no candidate is left, is answered 404.
C19_PinnedNode ==
    [][\A c \in CRProcs :
          /\ \A req \in CreateRequests :
                (BadPin(req) /\ CRBegin(c, req))
                   => /\ crPc'[c] = "done" /\ crResult'[c].code = 404
                      /\ instState'[Inst(c)] = "none"
                      /\ ReservedFor(Inst(c))' = {}
                      /\ QueuedFor(Inst(c))' = {}
                      /\ Inst(c) \notin delQ'
                      /\ ipam' = ipam /\ ifaces' = ifaces /\ startQ' = startQ
          /\ (CRPlacing(c) /\ crReq[c].placed_on # "" /\ crResult'[c].code = 200)
                => /\ placement'[Inst(c)] = crReq[c].placed_on
                   /\ QueuedFor(Inst(c))' =
                         {<<crReq[c].placed_on, Len(startQ[crReq[c].placed_on]) + 1>>}
          /\ CRPlacing(c)
                => /\ (crResult'[c].why = "CandidateNodeNotFoundException")
                          <=> CRCandidates(c) = {}
                   /\ crResult'[c].why = "CandidateNodeNotFoundException"
                          => crResult'[c].code = 404]_vars

\* C19 witness: one request was refused for its pinned node, which is not
\* ready, and left no instance, while the other, placed by the scheduler,
\* has its task list on the queue of the node recorded for it.
C19_Witness ==
    \E c \in CRProcs : \E d \in CRProcs \ {c} :
        /\ ~nodeReady["node1"]
        /\ crPc[c] = "done" /\ crResult[c].code = 404 /\ crResult[c].why = "node"
        /\ instState[Inst(c)] = "none" /\ ReservedFor(Inst(c)) = {}
        /\ crPc[d] = "done" /\ crResult[d].code = 200
        /\ placement[Inst(d)] = "node2" /\ QueuedFor(Inst(d)) = {<<"node2", 1>>}

\* The locks a handler holds.
HeldBy(p) == {l \in locks : l.holder = p}

NextTasks ==
    \/ \E c \in CRProcs, req \in CreateRequests : CRBegin(c, req)
    \/ \E c \in CRProcs : CRNetMissing(c)
    \/ \E c \in CRProcs : CRNoAddress(c)
    \/ \E c \in CRProcs : CRLock(c)
    \/ \E c \in CRProcs : CRLoadReserve(c)
    \/ \E c \in CRProcs : CRPersist(c)
    \/ \E c \in CRProcs : CRReserve(c)
    \/ \E c \in CRProcs : FLNoNetwork(c)
    \/ \E c \in CRProcs : FLLock(c)
    \/ \E c \in CRProcs : FLLoadReserve(c)
    \/ \E c \in CRProcs : FLPersist(c)
    \/ \E c \in CRProcs : CRFloatInstance(c)
    \/ \E c \in CRProcs : CRSchedule(c)
    \/ \E i \in Instances : DeleteWorker(i)
    \/ \E n \in Nodes, again \in BOOLEAN : NodeReceive(n, again)

SpecTasks == InitCreate /\ [][NextTasks]_vars

\* The orders of the floated interfaces of an instance, ascending.
RECURSIVE Ascending(_)
Ascending(orders) ==
    IF orders = {} THEN <<>>
    ELSE LET least == CHOOSE x \in orders : \A y \in orders : x <= y
         IN  <<least>> \o Ascending(orders \ {least})

\* The task list the claim describes for instance i, given its interfaces:
\* preflight, the fetches of the disks with a base or a blob in disk_spec
\* order, start, then one float task per floated interface in request order.
C13_Expected(i, nics) ==
    LET floats == Ascending({n.order : n \in {m \in nics : m.inst = i /\ m.floating # -1}})
    IN  <<Task("PreflightInstanceTask", i, "", -1),
          Task("FetchImageTask", i, "img", -1),
          Task("FetchImageTask", i, "sf://blob/b1", -1),
          Task("StartInstanceTask", i, "", -1)>>
        \o [k \in 1..Len(floats) |-> Task("FloatNetworkInterfaceTask", i, "", floats[k])]

\* C13: the step that answers a create request with success appends exactly
\* one task list, on the queue of the node recorded as the placement, in the
\* order preflight, fetches, start, floats; a request that fails enqueues
\* nothing; and a node never receives the start task of an instance before
\* its preflight task and each of its fetch tasks.
C13_TaskListOrder ==
    /\ [](\A n \in Nodes : \A k \in 1..Len(received[n]) :
            received[n][k].task = "StartInstanceTask"
                => \A want \in {Task("PreflightInstanceTask", received[n][k].inst, "", -1),
                                 Task("FetchImageTask", received[n][k].inst, "img", -1),
                                 Task("FetchImageTask", received[n][k].inst,
                                      "sf://blob/b1", -1)} :
                       \E j \in 1..(k - 1) : received[n][j] = want)
    /\ [][\A c \in CRProcs :
            (crPc[c] # "done" /\ crPc'[c] = "done")
                => IF crResult'[c].code = 200
                   THEN \E n \in Nodes :
                           /\ placement'[Inst(c)] = n
                           /\ startQ'[n] = Append(startQ[n],
                                  [inst |-> Inst(c), tries |-> 0,
                                   tasks |-> C13_Expected(Inst(c), ifaces')])
                           /\ \A m \in Nodes \ {n} : startQ'[m] = startQ[m]
                   ELSE startQ' = startQ]_vars

\* C13 witness: a node has received, after the start task, the float task
\* of the second interface of an instance created with two floated interfaces.
C13_Witness ==
    \E n \in Nodes : \E j, k \in 1..Len(received[n]) :
        /\ j < k
        /\ received[n][j].task = "StartInstanceTask"
        /\ received[n][k] = Task("FloatNetworkInterfaceTask", received[n][j].inst, "", 1)
        /\ placement[received[n][j].inst] = n
\* C2: no address of a network, the floating network included, is handed
\* out to two different labels: interfaces of different instances never
\* share an address of one network, two interfaces never share a floating
\* address, every address handed out is recorded for its label in the
\* persisted table, and a handler between loading and persisting a table
\* holds the lock (ipmanager, network).
C2_NoDoubleAllocation ==
    /\ \A a, b \in ifaces :
          (a.inst # b.inst /\ a.net = b.net /\ a.addr # -1) => a.addr # b.addr
    /\ \A a, b \in ifaces :
          ((a.inst # b.inst \/ a.order # b.order) /\ a.floating # -1)
              => a.floating # b.floating
    /\ \A a \in ifaces :
          /\ a.addr # -1 => ipam[a.net].res[a.addr] = InstLabel(a.inst)
          /\ a.floating # -1 => ipam["floating"].res[a.floating] = IfaceLabel(a)
    /\ \A p \in CRProcs \cup FLProcs :
          /\ crPc[p] \in {"locked", "persist"}
                => LockHeldBy(IPLockName(Head(crReq[p].nets).net), p)
          /\ crPc[p] \in {"float_locked", "float_persist"}
                => LockHeldBy(IPLockName("floating"), p)
    /\ \A l, m \in locks : l.name = m.name => l.holder = m.holder

\* One create request is about to persist the address it took on a network
\* while the other waits for that network's lock, and an interface of
\* another instance already has an address there.
C2_Witness ==
    /\ crPc["c1"] = "persist" /\ crPc["c2"] = "net"
    /\ crReq["c2"].nets # <<>>
    /\ Head(crReq["c2"].nets).net = Head(crReq["c1"].nets).net
    /\ Head(crReq["c2"].nets).how = "random"
    /\ \E n \in ifaces : n.inst = "i2" /\ n.net = Head(crReq["c1"].nets).net /\ n.addr # -1

\* The request of handler c was answered and no delete task of its instance
\* is waiting.
CRSettled(c) == crPc[c] = "done" /\ Inst(c) \notin delQ

\* Nothing of the instance is left: no address and no interface, and the
\* instance is in state error.
CRCleaned(i) ==
    /\ ReservedFor(i) = {}
    /\ \A n \in ifaces : n.inst # i
    /\ instState[i] = "error"

\* C3: when the allocation for a later network of a create request fails
\* (network missing, reserve refused, CongestedNetwork or floating failure)
\* after addresses were reserved for earlier ones, then once the queued
\* clean-up has run no address is left reserved for the instance and the
\* instance is in an error state.
C3_FailedAllocationCleansUp ==
    \A c \in CRProcs :
        (/\ CRSettled(c)
         /\ crResult[c].why \in {"network missing", "reserve refused",
                                 "CongestedNetwork", "floating"}
         /\ crResult[c].order >= 1)
            => CRCleaned(Inst(c))

\* C4: when place_instance raises LowResourceException or
\* CandidateNodeNotFoundException, no placement is recorded and no task list
\* is enqueued for the instance, its delete task is queued, and once that
\* task has run no address is reserved for it and it is in state error.
C4_PlacementFailureCleansUp ==
    \A c \in CRProcs :
        crResult[c].why \in {"LowResourceException", "CandidateNodeNotFoundException"}
            => /\ placement[Inst(c)] = ""
               /\ QueuedFor(Inst(c)) = {}
               /\ Inst(c) \in delQ \/ CRCleaned(Inst(c))

\* A request that had reserved an address was refused for lack of
\* resources and its clean-up has run.
C4_Witness ==
    \E c \in CRProcs :
        /\ crResult[c].why = "LowResourceException"
        /\ crResult[c].order >= 1
        /\ CRSettled(c)

\* Any sequence of calls on the table of one network by two callers; an
\* address one past the CIDR stands for the addresses outside it.
NextIPManager ==
    \/ \E addr \in 0..Cardinality(DOMAIN ipT.res), label \in TwoLabels :
           IPReserve(addr, label)
    \/ \E label \in TwoLabels : IPReserveRandom(label)
    \/ \E addr \in 0..Cardinality(DOMAIN ipT.res) : IPRelease(addr)

InitIPManager ==
    /\ locks = {} /\ AOInit /\ LKInit /\ ELInit /\ elCwd = "other" /\ MDInit /\ NSInit
    /\ CKInit /\ IEInit /\ NDInit /\ DSInit /\ CVInit /\ CRInit /\ crApi = "app" /\ netExists = AllNets /\ nodeReady = [n \in Nodes |-> TRUE]
    /\ ipT \in {NewTable(NumAddrs), NewTable(MinNetSize)}
    /\ ipCall = NoCall

SpecIPManager == InitIPManager /\ [][NextIPManager]_vars

\* The /29 scenario: one caller after the other, each with a label of its
\* own, reserves an address it names or takes the next free one.
NextSlash29 ==
    \/ \E addr \in 0..(MinNetSize - 1), label \in FreshLabels(ipT) : IPReserve(addr, label)
    \/ \E label \in FreshLabels(ipT) : IPReserveRandom(label)

InitSlash29 ==
    /\ locks = {} /\ AOInit /\ LKInit /\ ELInit /\ elCwd = "other" /\ MDInit /\ NSInit
    /\ CKInit /\ IEInit /\ NDInit /\ DSInit /\ CVInit /\ CRInit /\ crApi = "app" /\ netExists = AllNets /\ nodeReady = [n \in Nodes |-> TRUE]
    /\ ipT = NewTable(MinNetSize)
    /\ ipCall = NoCall

SpecSlash29 == InitSlash29 /\ [][NextSlash29]_vars

\* C14: reserve(addr, label) is idempotent on every network: the call
\* succeeds on a free address, and a call for an address the label already
\* holds succeeds too and leaves the table as the first call left it, with
\* the address still reserved by the label.
C14_ReserveIdempotent ==
    [][(ipCall'.op = "reserve" /\ IsInRange(ipT, ipCall'.addr))
          => /\ ipT.res[ipCall'.addr] = FreeLabel
                   => (ipCall'.raised = "none" /\ ipT'.res[ipCall'.addr] = ipCall'.label)
             /\ ipT.res[ipCall'.addr] = ipCall'.label
                   => (ipCall'.raised = "none" /\ ipT' = ipT)]_vars

\* C14 witness: on a network of 8 addresses a label reserved an address it
\* already held.
C14_Witness ==
    /\ Cardinality(DOMAIN ipT.res) = MinNetSize
    /\ ipCall.op = "reserve" /\ ipCall.raised = "none"
    /\ ipCall.held = ipCall.label
    /\ ipT.res[ipCall.addr] = ipCall.label

\* C16: after any sequence of calls, reserve_random_free_address returns an
\* address inside the CIDR that is not the network, gateway or broadcast
\* address and was free before the call, and it raises CongestedNetwork
\* exactly when no address is free; the three permanent reservations stay.
C16_RandomFreeAddress ==
    LET n == Cardinality(DOMAIN ipT.res)
    IN  /\ \A a \in {0, 1, n - 1} : ipT.res[a] = InfraLabel
        /\ ipCall.op = "random"
              => IF ipCall.raised = "none"
                 THEN /\ ipCall.addr \in 0..(n - 1)
                      /\ ipCall.addr \notin {0, 1, n - 1}
                      /\ ipCall.held = FreeLabel
                      /\ ipT.res[ipCall.addr] = ipCall.label
                 ELSE /\ ipCall.raised = "CongestedNetwork"
                      /\ \A a \in 0..(n - 1) : ipT.res[a] # FreeLabel

\* C16 witness: reserve_random_free_address wrapped around: it returned the
\* first usable address while the last usable one was taken.
C16_Witness ==
    LET n == Cardinality(DOMAIN ipT.res)
    IN  /\ n = MinNetSize
        /\ ipCall.op = "random" /\ ipCall.raised = "none" /\ ipCall.addr = 2
        /\ ipT.res[n - 2] \in TwoLabels

InitEndpoint ==
    /\ locks = {} /\ AOInit /\ LKInit /\ ELInit /\ elCwd = "other" /\ MDInit /\ NSInit
    /\ CKInit /\ NDInit /\ DSInit /\ CVInit /\ CRInit /\ IPInit /\ crApi = "app" /\ netExists = AllNets
    /\ nodeReady = [n \in Nodes |-> TRUE]
    /\ ieDb \in [IEUuids -> [ns : {"nsA"}, state : IEStates,
                             node : IENodes \cup {""}, power : {"on"}]]
    /\ ieQ = [n \in IENodes |-> <<>>]
    /\ ieLast = NoIeLast
    /\ iePw = [w \in PWProcs |-> NoPw]

NextEndpoint ==
    \/ \E req \in IERequests, at \in IENodes : IERequest(req, at)
    \/ \E n \in IENodes : IEDeleteWorker(n)

SpecEndpoint == InitEndpoint /\ [][NextEndpoint]_vars

\* C26: every successful state change writes the new state together with a
\* newer timestamp in one step and appends exactly one state-change event;
\* the state, its timestamp and the events change in no other step, so a
\* rejected state change appends none; delete() on an operation stored as
\* queued passes the setter's check.
C26_OneWriteOneEvent ==
    [][/\ (aoState' # aoState \/ aoUpdated' # aoUpdated \/ aoEvents' # aoEvents)
            => \E p \in AOProcs :
                   /\ aoPc[p] = "set_write" /\ aoPc'[p] = "idle"
                   /\ aoResult'[p] = "ok"
       /\ \A p \in AOProcs :
            /\ (aoPc[p] = "set_write" /\ aoPc'[p] = "idle")
                  => /\ aoState' = aoLocal[p].target
                     /\ aoUpdated' > aoUpdated
                     /\ aoEvents' = aoEvents + 1
            /\ (aoPc[p] = "set_read" /\ aoResult'[p] = "InvalidLifecycleState")
                  => aoEvents' = aoEvents
            /\ (/\ aoPc[p] = "set_read" /\ aoPc'[p] # "set_read"
                /\ aoLocal[p].target = STATE_DELETED
                /\ aoState = STATE_QUEUED)
                  => aoPc'[p] = "set_write"]_vars

\* C26 witness: delete() of a queued operation succeeded: deleted is stored
\* with the third timestamp and the third state-change event.
C26_Witness ==
    \E p \in AOProcs :
        /\ aoPc[p] = "idle" /\ aoResult[p] = "ok"
        /\ aoLocal[p].target = STATE_DELETED /\ aoLocal[p].read = STATE_QUEUED
        /\ aoState = STATE_DELETED
        /\ aoUpdated = 3 /\ aoEvents = 3

\* The check a decorator stands for: token verification, database lookup,
\* ownership check or state check.
CheckOf(d) ==
    CASE d \in {"jwt_required", "verify_token"} -> "token"
      [] d \in {"arg_is_instance_uuid", "arg_is_instance_ref"} -> "lookup"
      [] d = "requires_instance_ownership" -> "ownership"
      [] d = "requires_instance_active" -> "state"
      [] OTHER -> d

\* The checks of a trace run in the order token, lookup, ownership, state:
\* the trace starts with the token, a lookup follows a token, an ownership
\* check follows a lookup, and a state check comes after the ownership
\* check of its own node.
InOrder(T) ==
    /\ T # <<>> => CheckOf(T[1]) = "token"
    /\ \A k \in 1..Len(T) :
         /\ CheckOf(T[k]) = "lookup" => k > 1 /\ CheckOf(T[k - 1]) = "token"
         /\ CheckOf(T[k]) = "ownership" => k > 1 /\ CheckOf(T[k - 1]) = "lookup"
         /\ CheckOf(T[k]) = "state"
               => \E j \in 1..(k - 1) :
                     /\ CheckOf(T[j]) = "ownership"
                     /\ \A m \in j..k : CheckOf(T[m]) # "token"
         /\ T[k] = "handler" => k = Len(T)

\* C27: in every request to an instance endpoint the checks run in the order
\* token verification, database lookup, ownership check, state check; the
\* handler runs only after every decorator of the endpoint let the call
\* pass (valid token, stored instance, caller the instance's namespace or
\* system, and state created where the endpoint checks it); a caller with a
\* valid token who is neither the instance's namespace nor system gets
\* 404 'instance not found', as does any caller naming no stored instance,
\* and that request changes no record and no queue.
C27_CheckOrder ==
    [][ieLast'.tick # ieLast.tick =>
         LET req == ieLast'.req
             T == ieLast'.trace
             i == from_db(req.ref)
         IN  /\ InOrder(T)
             /\ T[Len(T)] = "handler"
                   => /\ \A k \in 1..Len(Decorators(req.api, req.ep)) :
                            \E j \in 1..(Len(T) - 1) : T[j] = Decorators(req.api, req.ep)[k]
                      /\ req.token = "valid"
                      /\ i # NoInst
                      /\ req.ident \in {i.ns, "system"}
                      /\ req.ep = "poweroff" => i.state = "created"
             /\ T[Len(T)] # "handler" => ieDb' = ieDb /\ ieQ' = ieQ
             /\ (req.token = "valid" /\ (i = NoInst \/ req.ident \notin {i.ns, "system"}))
                   => /\ ieLast'.resp = IEResponse(404, "instance not found")
                      /\ ieDb' = ieDb /\ ieQ' = ieQ]_vars

\* C27 witness: a caller of another namespace asked to delete a stored
\* instance in state created and was answered as if it did not exist, after
\* the token, lookup and ownership decorators, with nothing queued.
C27_Witness ==
    /\ ieLast.req.ep = "delete" /\ ieLast.req.api = "app"
    /\ ieLast.req.token = "valid" /\ ieLast.req.ref \in IEUuids
    /\ ieLast.req.ident = "nsB" /\ ieDb[ieLast.req.ref].ns = "nsA"
    /\ ieDb[ieLast.req.ref].state = "created"
    /\ ieLast.resp = IEResponse(404, "instance not found")
    /\ ieLast.trace = <<"jwt_required", "arg_is_instance_uuid", "requires_instance_ownership">>
    /\ Tasks(ieQ) = 0

\* The addresses of the floating network reserved for the label of an
\* interface.
FloatingOf(table, n) ==
    {a \in Addrs : table.res[a] = IfaceLabel([inst |-> n.inst, order |-> n.order])}

\* C28: floating-address assignment is idempotent per interface: in every
\* step, an interface that has a floating address and is still stored after
\* the step keeps that floating address, and exactly one address of the
\* floating network is reserved for its label.
C28_FloatIdempotent ==
    [][\A n \in ifaces :
         n.floating # -1
            => \A m \in ifaces' :
                 (m.inst = n.inst /\ m.order = n.order)
                    => /\ m.floating = n.floating
                       /\ FloatingOf(ipam'["floating"], m) = {n.floating}]_vars

WorkRank(st) ==
    CASE st = STATE_CREATED -> 1
      [] st = STATE_QUEUED -> 2
      [] st = STATE_EXECUTING -> 3
      [] st = STATE_COMPLETE -> 4
      [] OTHER -> 0

C31_TableCoversStates ==
    [][/\ aoState' \in DOMAIN state_targets
       /\ \A p \in AOProcs :
            (/\ aoPc[p] = "set_read" /\ aoPc'[p] # "set_read"
             /\ aoLocal[p].target = STATE_DELETED
             /\ aoState \in ACTIVE_STATES)
               => aoPc'[p] = "set_write"]_vars

\* The power endpoints next to delete requests and the node daemon: one
\* stored instance in state created, placed on a node.
InitPower ==
    /\ locks = {} /\ AOInit /\ LKInit /\ ELInit /\ elCwd = "other" /\ MDInit /\ NSInit
    /\ CKInit /\ NDInit /\ DSInit /\ CVInit /\ CRInit /\ IPInit /\ crApi = "app" /\ netExists = AllNets
    /\ nodeReady = [n \in Nodes |-> TRUE]
    /\ ieDb \in [IEUuids -> [ns : {"nsA"}, state : {"created"}, node : IENodes,
                             power : {"on", "off"}]]
    /\ ieQ = [n \in IENodes |-> <<>>]
    /\ ieLast = NoIeLast
    /\ iePw = [w \in PWProcs |-> NoPw]

NextPower ==
    \/ \E w \in PWProcs, api \in {"app", "instance"}, op \in PowerOps,
          ident \in {"nsA", "nsB"} :
           PWBegin(w, api, op, ident)
    \/ \E w \in PWProcs : PWLock(w)
    \/ \E w \in PWProcs, raises \in BOOLEAN : PWRun(w, raises)
    \/ \E req \in {r \in IERequests : /\ r.ep = "delete" /\ r.token = "valid"
                                       /\ r.ref = "i1" /\ r.ident = "nsA"
                                       /\ r.namespace = ""},
          at \in IENodes : IERequest(req, at)
    \/ \E n \in IENodes : IEDeleteWorker(n)

SpecPower == InitPower /\ [][NextPower]_vars

\* C32: a reboot, power-on, power-off, pause or unpause is executed only on
\* an instance whose stored state is created when the operation runs under
\* the instance lock, and a request answered 406 acquired no lock.
C32_PowerOnlyWhenCreated ==
    [][\A w \in PWProcs :
         /\ iePw'[w].ran \in {"", "created"}
         /\ (iePw[w].pc = "idle" /\ iePw'[w] # iePw[w] /\ iePw'[w].code = 406)
               => (locks' = locks /\ iePw'[w].pc = "idle")]_vars

NextNsDelete ==
    \/ \E p \in NDProcs, ns \in NDNamespaces \cup {""} : NDBegin(p, ns)
    \/ \E p \in NDProcs : NDScanInstances(p)
    \/ \E p \in NDProcs : NDScanNetworks(p)
    \/ \E p \in NDProcs : NDDelete(p)
    \/ \E i \in NDInsts : NDCreateInstance(i)
    \/ \E i \in NDInsts, st \in {"deleted", "error"} : NDInstanceEnds(i, st)
    \/ \E n \in NDNets : NDCreateNetwork(n)
    \/ \E n \in NDNets : NDNetworkDies(n)

SpecNsDelete == InitAll /\ [][NextNsDelete]_vars

\* C33: the step that deletes a namespace record finds no instance of the
\* namespace outside deleted and error and no network that is not dead; the
\* record of the system namespace is never deleted and a delete of it is
\* answered 403; a refused delete leaves the records and the metadata as
\* they were.
C33_DeleteOnlyWhenEmpty ==
    [][/\ ndStore'.rec["system"]
       /\ (ndStore.rec["nsA"] /\ ~ndStore'.rec["nsA"])
             => /\ \A i \in NDInsts : ndStore.insts[i] \in {"none", "deleted", "error"}
                /\ \A n \in NDNets : ndStore.nets[n] \in {"none", "dead"}
       /\ \A p \in NDProcs :
            /\ (ndPc'[p] # ndPc[p] /\ ndPc'[p].ns = "system") => ndPc'[p].code = 403
            /\ (ndPc'[p] # ndPc[p] /\ ndPc'[p].code \in {400, 403})
                  => (ndStore'.rec = ndStore.rec /\ ndStore'.meta = ndStore.meta)]_vars

InitDataStore ==
    /\ locks = {} /\ AOInit /\ LKInit /\ ELInit /\ elCwd = "other" /\ MDInit /\ NSInit
    /\ CKInit /\ IEInit /\ NDInit /\ CVInit /\ CRInit /\ IPInit /\ crApi = "app"
    /\ netExists = AllNets /\ nodeReady = [n \in Nodes |-> TRUE]
    /\ dsFs \in DSStores
    /\ dsCall = NoDsCall

NextDataStore ==
    \/ DSBegin
    \/ \E ent \in dsCall.todo : DSMigrateEnt(ent)
    \/ DSFinish

SpecDataStore == InitDataStore /\ [][NextDataStore]_vars

\* The databases of a store, in the type directory.
Databases(fs) == {e \in fs.root : e.ext = ""}

\* The database and the lock file of every object of store `before` are in
\* the shard directory of the object in store `fs`.
Resharded(before, fs) ==
    /\ Databases(fs) = {}
    /\ \A e \in Databases(before) :
          /\ [dir |-> Prefix(e.name), name |-> e.name, ext |-> ".202303",
              months |-> e.months] \in fs.shard
          /\ RootHas(before, e.name, ".lock")
                => /\ [dir |-> Prefix(e.name), name |-> e.name, ext |-> ".lock",
                       months |-> {}] \in fs.shard
                   /\ ~RootHas(fs, e.name, ".lock")

\* C34: a call of upgrade_data_store on a store of layout version 1 ends
\* with every database at <type>/<first two characters>/<name>.202303, its
\* lock file at <name>.lock in the same directory and version 2 in the
\* marker; a call on a store of version 2 moves nothing and writes nothing.
C34_UpgradeMovesAll ==
    (dsCall.pc = "idle" /\ dsCall.outcome # "none")
       => /\ dsCall.start = 1
             => /\ dsCall.outcome = "ok"
                /\ Resharded(dsCall.before, dsFs)
                /\ dsFs.marker = 2
          /\ dsCall.start = 2 => (dsFs = dsCall.before /\ ~dsCall.wrote)

\* The store of the call holds a two-character object and an object whose
\* name starts with those two characters, and no shorter name.
C35_Clash(fs) ==
    /\ \A e \in Databases(fs) : Len(e.name) >= 2
    /\ \E e, f \in Databases(fs) :
          Len(e.name) = 2 /\ Len(f.name) > 2 /\ Prefix(f.name) = e.name

\* C35: the migration of a store with a two-character object and another
\* object of the same first two characters completes, with both databases
\* in the shard directory, in whichever order the directory is listed.
C35_AnyListingOrder ==
    (dsCall.pc = "idle" /\ dsCall.outcome # "none" /\ dsCall.start = 1
        /\ C35_Clash(dsCall.before))
       => /\ dsCall.outcome = "ok"
          /\ Resharded(dsCall.before, dsFs)

\* C36: every event of a chunk <uuid>.<YYYYMM> has a timestamp of that
\* month.
C36_ChunkHoldsItsMonth ==
    \A f \in dsFs.shard : f.ext = ".202303" => f.months \subseteq {202303}

NextValidate == \E req \in CVRequests : CVPost(req)

SpecValidate == InitAll /\ [][NextValidate]_vars

\* C37: a create-instance request answered 400, 404 or 406 by the checks
\* that precede Instance.new leaves the store as it was: no instance,
\* artifact, interface or reservation is created and no task is queued.
C37_RejectedLeavesStore ==
    cvCall.code \in {400, 404, 406} => cvStore = cvCall.before

\* The disk specification of the instance the last request created.
C38_Created == cvStore.instances[Len(cvStore.instances)]

\* C38: the instance of a request with an NVRAM template holds the blob of
\* the template, the rest of a blob url or the blob its label resolves to,
\* whatever the disks of the request; a disk with a blob url as its base
\* holds the blob of that url.
C38_TemplateIsItsBlob ==
    /\ (cvCall.code # 0 /\ cvCall.req.nvram_template.prefix = "blob"
           /\ CVHandler([cvCall.req EXCEPT !.nvram_template = NoUrl], cvCall.before).code = 200)
          => /\ cvCall.code = 200
             /\ C38_Created.nvram_template = cvCall.req.nvram_template.rest
    /\ cvCall.code = 200
          => /\ cvCall.req.nvram_template.prefix = "label:"
                  => C38_Created.nvram_template = ResolveToBlob(cvCall.req.nvram_template.rest)
             /\ \A k \in 1..Len(cvCall.req.disk) :
                   cvCall.req.disk[k].base.prefix = "blob"
                      => C38_Created.disk_spec[k].blob_uuid = cvCall.req.disk[k].base.rest
====
